---------------------------- MODULE Spec2Model ----------------------------
(***************************************************************************)
(* Voice scheduling agent: the voice session controller and its tool-call  *)
(* dispatcher (two builds of the VoiceAssistant component: the one in      *)
(* src/unnamed/part_004 and the one in src/components/VoiceAssistant.tsx), *)
(* the client's BackendCalendar service and the calendar server's schedule *)
(* endpoint (two builds: calendar.ts and the session variant of index.ts). *)
(***************************************************************************)
EXTENDS Naturals, Integers, Sequences, FiniteSets, TLC

VARIABLES
  build,                  \* which VoiceAssistant source is running
  apiKey,                 \* the build has a Gemini API key in its environment
  mode,                   \* React state: "sandbox" | "real"
  organizerConnected,     \* React state
  authPending,            \* refreshAuthStatus requests in flight
  signingOut,             \* signOutOrganizer calls that await the logout
  isActive,               \* React state
  errorMessage,           \* React state, Null when no error is shown
  sessionRef,             \* sessionRef.current: 0 is null, else a session id
  audioContextRef,        \* audioContextRef.current: 0 is null, else a context id
  outputAudioContextRef,  \* outputAudioContextRef.current
  streamRef,              \* streamRef.current (VoiceAssistant.tsx only)
  isConnectedRef,         \* isConnectedRef.current (VoiceAssistant.tsx only)
  transport,              \* state of the live connection each startSession opened
  starts,                 \* every startSession invocation: its position and closure
  ctxOpen,                \* AudioContexts created and not yet closed
  micLive,                \* media streams whose tracks have not been stopped
  teardowns,              \* how many times stopSession ran to its end, where it
                          \* calls onRefresh (capped)
  processorRef,           \* processorRef.current (VoiceAssistant.tsx only)
  processors,             \* the AudioContext each session's processor was created in
  released,               \* resources on which stop/disconnect/close was called
  doubled,                \* resources on which it was called again
  nextStartTimeRef,       \* nextStartTimeRef.current: the scheduling cursor
  currentTime,            \* currentTime of the context in outputAudioContextRef
  sources,                \* every source.start(...) call, in order
  sourcesRef,             \* sourcesRef.current (part_004 only)
  captured,               \* the session of every onaudioprocess window, in order
  pendingInput,           \* windows waiting in sessionPromise.then (part_004)
  realtimeInput,          \* sendRealtimeInput calls, in order
  handlers,               \* onmessage invocations that carried tool calls
  requests,               \* requests made to the Calendar Service, in order
  toolResponses,          \* sendToolResponse calls, in order
  server,                 \* which Calendar Service source is running
  token,                  \* the organizer's Google credentials are stored (the
                          \* token file; oauth2Client.credentials of index.ts)
  envToken,               \* GOOGLE_TOKEN_JSON holds a token (googleAuth.ts)
  sessions,               \* the sessions Map of index.ts: each created session
  loggedOut,              \* a logout was answered, and no OAuth callback since
  reply,                  \* the latest answer to a status or free/busy request
  queries,                \* free/busy requests that reached calendar.freebusy.query
  booked,                 \* windows that are busy on the organizer's calendar
  tasks,                  \* schedule requests the server has taken, in order
  inserted,               \* events.insert calls Google carried out, in order
  isLoading,              \* ChatBot's React state
  messages,               \* ChatBot's React state: who said each message
  chat,                   \* the handleSend in flight: position, calls, responses
  chatRequests,           \* requests ChatBot made to the Calendar Service
  followUps,              \* the functionResponses of each follow-up request
  vision,                 \* VideoAnalyzer's live vision: its state, refs and audio
  attendeeEmail,          \* the address text handed to normalizeEmail
  cleanedEmail,           \* what normalizeEmail made of it
  isConnecting,           \* React state (part_004)
  connecting              \* the connectOrganizerCalendar call: position, clock

lifeVars == <<isActive, errorMessage, sessionRef, audioContextRef,
              outputAudioContextRef, streamRef, isConnectedRef, transport,
              ctxOpen, micLive, teardowns, processorRef, processors, released,
              doubled,
              nextStartTimeRef, currentTime, sources, sourcesRef, captured,
              pendingInput, realtimeInput>>
uiVars   == <<mode, organizerConnected, authPending, signingOut>>
toolVars == <<handlers, requests, toolResponses>>
authVars == <<envToken, sessions, loggedOut, reply, queries>>
srvVars  == <<server, token, booked, tasks, inserted, authVars>>
chatVars == <<isLoading, messages, chat, chatRequests, followUps>>
voiceVars == <<build, apiKey, uiVars, lifeVars, starts, toolVars>>
oauthVars == <<isConnecting, connecting>>
appVars  == <<vision, attendeeEmail, cleanedEmail, oauthVars>>
vars     == <<voiceVars, srvVars, chatVars, appVars>>

(***************************************************************************)
(* Bounds of the model.                                                    *)
(***************************************************************************)
MaxStarts == 2        \* startSession invocations in the lifecycle specification
MaxCalls  == 2        \* function calls the model delivers in one behaviour
MaxTeardowns == 3     \* cap of the stopSession counter
MaxRequests == 2
MaxSends == 2
MaxChunks == 3       \* audio chunks the model delivers in one behaviour
MaxTime == 3         \* the audio clock stops here
MaxWindows == 3      \* microphone windows the model captures in one behaviour
MaxPending == 2      \* refreshAuthStatus requests in flight at one time
MaxSignOuts == 1     \* signOutOrganizer calls in flight at one time

Null == "null"
Absent == "absent"    \* a field a JavaScript object does not have

Builds == {"part_004", "VoiceAssistant"}

(***************************************************************************)
(* Text.  An e-mail address is a sequence of one-character strings.        *)
(***************************************************************************)
Upper == {"V", "E", "A", "T"}
Letters == {"a", "b", "c", "d", "e", "f", "g", "h", "i", "j", "k", "l", "m",
            "n", "o", "p", "q", "r", "s", "t", "u", "v", "w", "x", "y", "z"}
Digits == {"1"}

toLowerCase(c) ==
  CASE c = "V" -> "v" [] c = "E" -> "e" [] c = "A" -> "a" [] c = "T" -> "t"
    [] OTHER -> c

IsSpace(c) == c = " "
IsWord(c) == c \in Letters \cup Upper \cup Digits \cup {"_"}

RECURSIVE TrimLeft(_)
TrimLeft(s) == IF s # <<>> /\ IsSpace(Head(s)) THEN TrimLeft(Tail(s)) ELSE s

RECURSIVE TrimRight(_)
TrimRight(s) ==
  IF s # <<>> /\ IsSpace(s[Len(s)]) THEN TrimRight(SubSeq(s, 1, Len(s) - 1)) ELSE s

trim(s) == TrimRight(TrimLeft(s))

\* s has w at position i
HasAt(s, i, w) == i + Len(w) - 1 <= Len(s) /\ SubSeq(s, i, i + Len(w) - 1) = w

\* index of the first non-space at or after i (Len(s)+1 when there is none)
RECURSIVE SkipSpaces(_, _)
SkipSpaces(s, i) == IF i <= Len(s) /\ IsSpace(s[i]) THEN SkipSpaces(s, i + 1) ELSE i

\* s.replace(/\s+<w>\s+/g, rep): leftmost matches, \s+ greedy, scanning from i
RECURSIVE ReplaceSpaced(_, _, _, _)
ReplaceSpaced(s, i, w, rep) ==
  IF i > Len(s) THEN <<>>
  ELSE LET j == SkipSpaces(s, i)
           k == j + Len(w)
       IN IF j > i /\ HasAt(s, j, w) /\ k <= Len(s) /\ IsSpace(s[k])
          THEN rep \o ReplaceSpaced(s, SkipSpaces(s, k), w, rep)
          ELSE <<s[i]>> \o ReplaceSpaced(s, i + 1, w, rep)

\* s.replace(/\b<w>\b/g, rep) for a w made of word characters
RECURSIVE ReplaceWord(_, _, _, _)
ReplaceWord(s, i, w, rep) ==
  IF i > Len(s) THEN <<>>
  ELSE LET k == i + Len(w)
       IN IF /\ HasAt(s, i, w)
             /\ (i = 1 \/ ~IsWord(s[i - 1]))
             /\ (k > Len(s) \/ ~IsWord(s[k]))
          THEN rep \o ReplaceWord(s, k, w, rep)
          ELSE <<s[i]>> \o ReplaceWord(s, i + 1, w, rep)

\* s.replace(/\s+/g, "")
RECURSIVE RemoveSpaces(_)
RemoveSpaces(s) ==
  IF s = <<>> THEN <<>>
  ELSE IF IsSpace(Head(s)) THEN RemoveSpaces(Tail(s))
       ELSE <<Head(s)>> \o RemoveSpaces(Tail(s))

\* s.replace(/^[^\w]+/, "")
RECURSIVE StripLeading(_)
StripLeading(s) == IF s # <<>> /\ ~IsWord(Head(s)) THEN StripLeading(Tail(s)) ELSE s

\* s.replace(/[^\w]+$/, "")
RECURSIVE StripTrailing(_)
StripTrailing(s) ==
  IF s # <<>> /\ ~IsWord(s[Len(s)]) THEN StripTrailing(SubSeq(s, 1, Len(s) - 1)) ELSE s

normalizeEmail(raw) ==
  LET s0 == [n \in 1..Len(trim(raw)) |-> toLowerCase(trim(raw)[n])]
      s1 == ReplaceSpaced(s0, 1, <<"a", "t">>, <<"@">>)
      s2 == ReplaceSpaced(s1, 1, <<"d", "o", "t">>, <<".">>)
      s3 == ReplaceSpaced(s2, 1,
              <<"u", "n", "d", "e", "r", "s", "c", "o", "r", "e">>, <<"_">>)
      s4 == ReplaceSpaced(s3, 1, <<"d", "a", "s", "h">>, <<"-">>)
      s5 == ReplaceSpaced(s4, 1, <<"h", "y", "p", "h", "e", "n">>, <<"-">>)
      s6 == ReplaceWord(s5, 1, <<"a", "t">>, <<"@">>)
      s7 == ReplaceWord(s6, 1, <<"d", "o", "t">>, <<".">>)
      s8 == RemoveSpaces(s7)
  IN StripTrailing(StripLeading(s8))

\* /^[^\s@]+@[^\s@]+\.[^\s@]+$/ : exactly one "@", no whitespace, a non-empty
\* local part, and after the "@" a "." with a character before and after it
NoSpaceAt(s) == \A n \in 1..Len(s) : ~IsSpace(s[n]) /\ s[n] # "@"
isValidEmail(email) ==
  \E a \in 1..Len(email) :
    /\ email[a] = "@"
    /\ a > 1
    /\ NoSpaceAt(SubSeq(email, 1, a - 1))
    /\ NoSpaceAt(SubSeq(email, a + 1, Len(email)))
    /\ \E d \in (a + 2)..(Len(email) - 1) : email[d] = "."


\* attendee e-mails the model passes
EmailPlain == <<"v", "@", "e", ".", "c", "o">>
EmailSpoken == <<"v", " ", "a", "t", " ", "e", " ", "d", "o", "t", " ", "c", "o">>
EmailBad == <<"n", "o", "t", " ", "a", "n", " ", "e", "m", "a", "i", "l">>
Emails == {EmailPlain, EmailSpoken, EmailBad}

(***************************************************************************)
(* Session lifecycle.  The state a callback reads and writes is packed     *)
(* into a record so that stopSession can run in the middle of a handler.   *)
(***************************************************************************)
Cur == [isActive |-> isActive, errorMessage |-> errorMessage,
        sessionRef |-> sessionRef, audioContextRef |-> audioContextRef,
        outputAudioContextRef |-> outputAudioContextRef,
        streamRef |-> streamRef, isConnectedRef |-> isConnectedRef,
        transport |-> transport, ctxOpen |-> ctxOpen, micLive |-> micLive,
        teardowns |-> teardowns, processorRef |-> processorRef,
        processors |-> processors,
        released |-> released, doubled |-> doubled,
        nextStartTimeRef |-> nextStartTimeRef, currentTime |-> currentTime,
        sources |-> sources, sourcesRef |-> sourcesRef, captured |-> captured,
        pendingInput |-> pendingInput, realtimeInput |-> realtimeInput]

Commit(st) ==
  /\ isActive' = st.isActive
  /\ errorMessage' = st.errorMessage
  /\ sessionRef' = st.sessionRef
  /\ audioContextRef' = st.audioContextRef
  /\ outputAudioContextRef' = st.outputAudioContextRef
  /\ streamRef' = st.streamRef
  /\ isConnectedRef' = st.isConnectedRef
  /\ transport' = st.transport
  /\ ctxOpen' = st.ctxOpen
  /\ micLive' = st.micLive
  /\ teardowns' = st.teardowns
  /\ processorRef' = st.processorRef
  /\ processors' = st.processors
  /\ released' = st.released
  /\ doubled' = st.doubled
  /\ nextStartTimeRef' = st.nextStartTimeRef
  /\ currentTime' = st.currentTime
  /\ sources' = st.sources
  /\ sourcesRef' = st.sourcesRef
  /\ captured' = st.captured
  /\ pendingInput' = st.pendingInput
  /\ realtimeInput' = st.realtimeInput

\* the AudioContexts startSession invocation i creates
InCtx(i) == 2 * i - 1
OutCtx(i) == 2 * i

\* session.close(): a connecting or open connection starts closing, and the
\* close event (onclose) is delivered later; otherwise nothing happens
close(tr, s) ==
  IF s # 0 /\ tr[s] \in {"connecting", "open"} THEN [tr EXCEPT ![s] = "closing"]
  ELSE tr

Bump(n) == IF n < MaxTeardowns THEN n + 1 ELSE n

\* a call of track.stop(), disconnect(), close() or source.stop() on resource r
Release(st, r) ==
  IF r \in st.released THEN [st EXCEPT !.doubled = @ \cup {r}]
  ELSE [st EXCEPT !.released = @ \cup {r}]

\* if (streamRef.current) { getTracks().forEach(stop); streamRef.current = null }
stopTracks(st) ==
  IF st.streamRef = 0 THEN st
  ELSE [Release(st, <<"stream", st.streamRef>>) EXCEPT
          !.micLive = @ \ {st.streamRef}, !.streamRef = 0]

\* if (processorRef.current) { disconnect(); processorRef.current = null }
disconnectProcessor(st) ==
  IF st.processorRef = 0 THEN st
  ELSE [Release(st, <<"processor", st.processorRef>>) EXCEPT !.processorRef = 0]

\* sessionRef.current?.close?.(); sessionRef.current = null, with the mutant
\* that forgets to clear the ref
closeSessionKeepsRef(st) ==
  IF st.sessionRef = 0 THEN st
  ELSE [Release(st, <<"session", st.sessionRef>>) EXCEPT
          !.transport = close(@, st.sessionRef)]

closeSession(st) ==
  IF st.sessionRef = 0 THEN st
  ELSE [Release(st, <<"session", st.sessionRef>>) EXCEPT
          !.transport = close(@, st.sessionRef), !.sessionRef = 0]

\* audioContextRef.current?.close(); outputAudioContextRef.current?.close();
\* both refs = null
closeContexts(st) ==
  LET a == IF st.audioContextRef = 0 THEN st
           ELSE Release(st, <<"context", st.audioContextRef>>)
      b == IF st.outputAudioContextRef = 0 THEN a
           ELSE Release(a, <<"context", st.outputAudioContextRef>>)
  IN [b EXCEPT !.ctxOpen = @ \ {st.audioContextRef, st.outputAudioContextRef},
               !.audioContextRef = 0,
               !.outputAudioContextRef = 0]

\* sourcesRef.current.forEach((s) => s.stop()); sourcesRef.current.clear()
RECURSIVE stopEach(_, _)
stopEach(st, todo) ==
  IF todo = {} THEN st
  ELSE LET k == CHOOSE x \in todo : TRUE
       IN stopEach([Release(st, <<"source", k>>) EXCEPT
                      !.sources[k].state = "stopped"], todo \ {k})

stopSources(st) == [stopEach(st, st.sourcesRef) EXCEPT !.sourcesRef = {}]

stopSession(st) ==
  LET a == IF build = "VoiceAssistant" THEN disconnectProcessor(stopTracks(st))
           ELSE st
      b == closeContexts(closeSession(a))
      c == IF build = "part_004" THEN stopSources(b) ELSE b
  IN [c EXCEPT !.isConnectedRef = FALSE,
               !.isActive = FALSE,
               !.teardowns = Bump(@)]

\* the callbacks startSession registers with ai.live.connect
onopen(st) ==
  IF build = "VoiceAssistant"
  THEN [st EXCEPT !.isConnectedRef = TRUE, !.isActive = TRUE]
  ELSE st

onclose(st) ==
  IF build = "VoiceAssistant" THEN stopSession(st) ELSE st

onerror(st) ==
  IF build = "part_004"
  THEN stopSession([st EXCEPT !.errorMessage = "Connection Error. See Console."])
  ELSE st

\* catch (e) { setErrorMessage(...); stopSession(); }
startFailed(st, msg) == stopSession([st EXCEPT !.errorMessage = msg])

SetPc(i, pc) == starts' = [starts EXCEPT ![i].pc = pc]

\* audioContextRef.current.createScriptProcessor(4096, 1, 1), connected to
\* the microphone source of session i
createScriptProcessor(st, i) ==
  [st EXCEPT !.processors = @ \cup {[session |-> i, ctx |-> st.audioContextRef]}]

\* sessionPromise resolves: the callbacks that onaudioprocess queued with
\* sessionPromise.then(...) run in the order they were queued
flush(st, i) ==
  LET Mine(w) == st.captured[w].session = i
      Other(w) == st.captured[w].session # i
      Sent(w) == [session |-> i, window |-> w]
      mine == SelectSeq(st.pendingInput, Mine)
  IN [st EXCEPT !.realtimeInput = @ \o [n \in 1..Len(mine) |-> Sent(mine[n])],
                !.pendingInput = SelectSeq(@, Other)]

\* what startSession shows when the build has no API key
MissingKeyMessage ==
  IF build = "part_004"
  THEN "Missing Gemini API key. Ensure .env.local has GEMINIAPIKEY and restart dev server."
  ELSE "Missing API Key (VITE_API_KEY)"

\* audioContextRef.current = new AudioContext({ sampleRate: 16000 })
createInputContext(st, i) ==
  [st EXCEPT !.audioContextRef = InCtx(i), !.ctxOpen = @ \cup {InCtx(i)}]

\* click on the microphone button while it shows "Tap to speak": without an
\* API key startSession shows the message and returns; with one it runs up
\* to its first await, which in part_004 is the resume() of an output
\* context that is suspended, and getUserMedia otherwise
StartClick(limit) ==
  /\ ~isActive
  /\ IF ~apiKey
     THEN /\ Commit([Cur EXCEPT !.errorMessage = MissingKeyMessage])
          /\ UNCHANGED starts
     ELSE /\ Len(starts) < limit
          /\ \E suspended \in (IF build = "part_004" THEN BOOLEAN ELSE {FALSE}) :
               LET i == Len(starts) + 1
                   out == IF build = "part_004" /\ outputAudioContextRef # 0
                          THEN outputAudioContextRef ELSE OutCtx(i)
                   made == [Cur EXCEPT !.errorMessage = Null,
                                       !.outputAudioContextRef = out,
                                       !.currentTime =
                                          IF out = Cur.outputAudioContextRef
                                          THEN Cur.currentTime ELSE 0,
                                       !.ctxOpen = Cur.ctxOpen \cup {out},
                                       !.transport = Append(Cur.transport, "none")]
                   st == IF build = "part_004" /\ ~suspended
                         THEN createInputContext(made, i) ELSE made
               IN /\ Commit(st)
                  /\ starts' = Append(starts,
                       [pc |-> IF suspended THEN "awaitResume" ELSE "awaitMic",
                        mode |-> mode,
                        organizerConnected |-> organizerConnected,
                        out |-> out])
  /\ UNCHANGED <<build, apiKey, appVars, srvVars, chatVars, uiVars, toolVars>>

\* resume() resolves: startSession creates the input context and runs up to
\* getUserMedia
ResumeResolved(i) ==
  /\ i \in 1..Len(starts)
  /\ starts[i].pc = "awaitResume"
  /\ starts[i].out \in ctxOpen
  /\ Commit(createInputContext(Cur, i))
  /\ SetPc(i, "awaitMic")
  /\ UNCHANGED <<build, apiKey, appVars, srvVars, chatVars, uiVars, toolVars>>

\* resume() rejects: the context was closed while startSession waited
ResumeRejected(i) ==
  /\ i \in 1..Len(starts)
  /\ starts[i].pc = "awaitResume"
  /\ starts[i].out \notin ctxOpen
  /\ Commit(startFailed(Cur, "Cannot resume a closed AudioContext."))
  /\ SetPc(i, "failed")
  /\ UNCHANGED <<build, apiKey, appVars, srvVars, chatVars, uiVars, toolVars>>

\* getUserMedia resolves: startSession runs up to its await of the connection
MicGranted(i) ==
  /\ i \in 1..Len(starts)
  /\ starts[i].pc = "awaitMic"
  /\ LET live == [Cur EXCEPT !.micLive = Cur.micLive \cup {i},
                             !.transport = [Cur.transport EXCEPT ![i] = "connecting"]]
     IN IF build = "part_004"
        THEN IF audioContextRef = 0
             THEN /\ Commit(startFailed(live, "Cannot read properties of null"))
                  /\ SetPc(i, "failed")
             ELSE /\ Commit(createScriptProcessor(live, i))
                  /\ SetPc(i, "awaitConnect")
        ELSE /\ Commit([live EXCEPT !.streamRef = i,
                                    !.audioContextRef = InCtx(i),
                                    !.ctxOpen = live.ctxOpen \cup {InCtx(i)}])
             /\ SetPc(i, "awaitConnect")
  /\ UNCHANGED <<build, apiKey, appVars, srvVars, chatVars, uiVars, toolVars>>

\* getUserMedia rejects (permission denied)
MicDenied(i) ==
  /\ i \in 1..Len(starts)
  /\ starts[i].pc = "awaitMic"
  /\ Commit(startFailed(Cur, "Permission denied"))
  /\ SetPc(i, "failed")
  /\ UNCHANGED <<build, apiKey, appVars, srvVars, chatVars, uiVars, toolVars>>

\* the connection opens: onopen runs, then the connect promise resolves and
\* the startSession that awaits it runs to its end
ConnectOpen(i) ==
  /\ i \in 1..Len(starts)
  /\ transport[i] = "connecting"
  /\ LET opened == onopen([Cur EXCEPT !.transport[i] = "open"])
         held == [opened EXCEPT !.sessionRef = i]
     IN IF starts[i].pc # "awaitConnect"
        THEN Commit(opened) /\ UNCHANGED starts
        ELSE IF build = "part_004"
             THEN Commit(flush([held EXCEPT !.isActive = TRUE], i)) /\ SetPc(i, "done")
             ELSE IF held.audioContextRef = 0
                  THEN /\ Commit(startFailed(held, "Cannot read properties of null"))
                       /\ SetPc(i, "failed")
                  ELSE /\ Commit([createScriptProcessor(held, i) EXCEPT
                                     !.processorRef = i])
                       /\ SetPc(i, "done")
  /\ UNCHANGED <<build, apiKey, appVars, srvVars, chatVars, uiVars, toolVars>>

\* the connect promise rejects: the catch clause of the startSession that
\* awaits it runs; what onaudioprocess queued on the promise never runs
ConnectRejected(i) ==
  /\ i \in 1..Len(starts)
  /\ starts[i].pc = "awaitConnect"
  /\ LET Other(w) == Cur.captured[w].session # i
         over == [Cur EXCEPT !.transport[i] = IF @ = "connecting" THEN "closed"
                                              ELSE @,
                             !.pendingInput = SelectSeq(@, Other)]
     IN Commit(startFailed(over, "connect failed"))
  /\ SetPc(i, "failed")
  /\ UNCHANGED <<build, apiKey, appVars, srvVars, chatVars, uiVars, toolVars>>

\* the connection fails or drops: the error event, with the close event to follow
TransportError(i) ==
  /\ i \in 1..Len(starts)
  /\ transport[i] \in {"connecting", "open"}
  /\ Commit(onerror([Cur EXCEPT !.transport[i] = "closing"]))
  /\ UNCHANGED <<build, apiKey, appVars, srvVars, chatVars, uiVars, starts, toolVars>>

\* the close event of a connection that was closed locally or failed
CloseEvent(i) ==
  /\ i \in 1..Len(starts)
  /\ transport[i] = "closing"
  /\ Commit(onclose([Cur EXCEPT !.transport[i] = "closed"]))
  /\ UNCHANGED <<build, apiKey, appVars, srvVars, chatVars, uiVars, starts, toolVars>>

\* the server closes an open connection
RemoteClose(i) ==
  /\ i \in 1..Len(starts)
  /\ transport[i] = "open"
  /\ Commit(onclose([Cur EXCEPT !.transport[i] = "closed"]))
  /\ UNCHANGED <<build, apiKey, appVars, srvVars, chatVars, uiVars, starts, toolVars>>

\* click on the microphone button while the session is active
StopClick ==
  /\ isActive
  /\ Commit(stopSession(Cur))
  /\ UNCHANGED <<build, apiKey, appVars, srvVars, chatVars, uiVars, starts, toolVars>>

(***************************************************************************)
(* Mode switch and organizer sign-in state.                                *)
(***************************************************************************)
Modes == {"sandbox", "real"}

\* the mode buttons, disabled while isActive; a new mode re-runs the
\* refreshAuthStatus effect, which sends one more status request (at most
\* cap of them are in flight)
SetMode(m, cap) ==
  /\ ~isActive
  /\ m \in Modes /\ m # mode
  /\ authPending < cap
  /\ mode' = m
  /\ authPending' = authPending + 1
  /\ UNCHANGED <<build, apiKey, appVars, srvVars, chatVars, organizerConnected,
                 signingOut, lifeVars, starts, toolVars>>

\* BackendCalendar.authStatus() answers one of the refreshAuthStatus calls in
\* flight (a request that fails answers connected: false)
refreshAuthStatus(connected) ==
  /\ authPending > 0
  /\ organizerConnected' = connected
  /\ authPending' = authPending - 1
  /\ UNCHANGED <<build, apiKey, appVars, srvVars, chatVars, mode, signingOut,
                 lifeVars, starts, toolVars>>

\* the Disconnect button, shown in real mode while the organizer is
\* connected: signOutOrganizer runs up to its await of BackendCalendar.logout()
signOutOrganizer ==
  /\ mode = "real" /\ organizerConnected
  /\ signingOut < MaxSignOuts
  /\ signingOut' = signingOut + 1
  /\ UNCHANGED <<build, apiKey, appVars, srvVars, chatVars, mode,
                 organizerConnected, authPending, lifeVars, starts, toolVars>>

\* logout() returns (it catches its own failures): the rest of
\* signOutOrganizer; a mode that changes re-runs the refreshAuthStatus effect
logoutReturns(cap) ==
  /\ signingOut > 0
  /\ mode = "sandbox" \/ authPending < cap
  /\ signingOut' = signingOut - 1
  /\ organizerConnected' = FALSE
  /\ mode' = "sandbox"
  /\ authPending' = IF mode = "sandbox" THEN authPending ELSE authPending + 1
  /\ UNCHANGED <<build, apiKey, appVars, srvVars, chatVars, lifeVars, starts,
                 toolVars>>

ClientInit ==
  /\ build \in Builds
  /\ apiKey \in BOOLEAN
  /\ mode = "sandbox"
  /\ organizerConnected = FALSE
  /\ authPending = 1
  /\ signingOut = 0
  /\ isActive = FALSE
  /\ errorMessage = Null
  /\ sessionRef = 0
  /\ audioContextRef = 0
  /\ outputAudioContextRef = 0
  /\ streamRef = 0
  /\ isConnectedRef = FALSE
  /\ transport = <<>>
  /\ starts = <<>>
  /\ ctxOpen = {}
  /\ micLive = {}
  /\ teardowns = 0
  /\ processorRef = 0
  /\ processors = {}
  /\ released = {}
  /\ doubled = {}
  /\ nextStartTimeRef = 0
  /\ currentTime = 0
  /\ sources = <<>>
  /\ sourcesRef = {}
  /\ captured = <<>>
  /\ pendingInput = <<>>
  /\ realtimeInput = <<>>
  /\ handlers = <<>>
  /\ requests = <<>>
  /\ toolResponses = <<>>

\* the Calendar Service after boot: the token file an earlier run saved is
\* still there or not (index.ts loads it into oauth2Client at start-up,
\* loadToken of googleAuth.ts reads it at every call), the sessions Map is
\* empty, and nothing is on the calendar
NoReply == [op |-> "none"]

ServerBoot(b) ==
  /\ server = b
  /\ token \in BOOLEAN
  /\ envToken \in (IF b = "legacy" THEN BOOLEAN ELSE {FALSE})
  /\ sessions = <<>>
  /\ loggedOut = FALSE
  /\ reply = NoReply
  /\ queries = <<>>
  /\ booked = {}
  /\ tasks = <<>>
  /\ inserted = <<>>

\* ChatBot after mount: the greeting is the only message
ChatIdle == [pc |-> "idle", calls |-> <<>>, next |-> 1, functionResponses |-> <<>>]
ChatInit ==
  /\ isLoading = FALSE
  /\ messages = <<"model">>
  /\ chat = ChatIdle
  /\ chatRequests = <<>>
  /\ followUps = <<>>

\* VideoAnalyzer after mount
VisionIdle ==
  [isLive |-> FALSE, isLoading |-> FALSE, error |-> "",
   sessionRef |-> 0, frameIntervalRef |-> 0, audioContextRef |-> 0,
   outputAudioContextRef |-> 0, nextStartTimeRef |-> 0, srcObject |-> 0,
   started |-> 0, runs |-> <<>>, ctxOpen |-> {}, tracksLive |-> {},
   intervals |-> {}, released |-> {}, doubled |-> {}, currentTime |-> 0,
   teardowns |-> 0, arrived |-> 0, decoding |-> <<>>, sources |-> <<>>,
   videoFile |-> FALSE, base64Video |-> FALSE, uploads |-> 0, reading |-> 0,
   analysis |-> "", analyses |-> 0, analyzing |-> 0]

\* cleanedEmail before normalizeEmail has run (no text, whose elements are
\* single characters, equals it)
NotCalled == <<Null>>

\* no connectOrganizerCalendar call yet
OAuthIdle ==
  /\ isConnecting = FALSE
  /\ connecting = [pc |-> "idle", elapsed |-> 0]

AppInit ==
  /\ OAuthIdle
  /\ vision = VisionIdle
  /\ attendeeEmail = <<>>
  /\ cleanedEmail = NotCalled

\* the client's specifications take the Calendar Service's answers from
\* Answers; the server stays as booted, without a token file
Init == ClientInit /\ ServerBoot("session") /\ ~token /\ ChatInit /\ AppInit

\* the mode buttons and the answers to the status requests
UiMode(cap) ==
  \/ \E m \in Modes : SetMode(m, cap)
  \/ \E c \in BOOLEAN : refreshAuthStatus(c)

\* those and the Disconnect button
Ui(cap) ==
  \/ UiMode(cap)
  \/ signOutOrganizer
  \/ logoutReturns(cap)

Events ==
  \/ \E i \in 1..MaxStarts + 1 : ResumeResolved(i)
  \/ \E i \in 1..MaxStarts + 1 : MicGranted(i)
  \/ \E i \in 1..MaxStarts + 1 : MicDenied(i)
  \/ \E i \in 1..MaxStarts + 1 : ConnectOpen(i)
  \/ \E i \in 1..MaxStarts + 1 : ConnectRejected(i)
  \/ \E i \in 1..MaxStarts + 1 : TransportError(i)
  \/ \E i \in 1..MaxStarts + 1 : CloseEvent(i)
  \/ \E i \in 1..MaxStarts + 1 : RemoteClose(i)
  \/ StopClick

\* what only startSession invocations that overlap can produce
Overlap == \E i \in 1..MaxStarts + 1 : ResumeRejected(i)

LifecycleNext == StartClick(MaxStarts) \/ Events \/ Overlap \/ Ui(MaxPending)

LifecycleSpec == Init /\ [][LifecycleNext]_vars

(***************************************************************************)
(* Audio output: the scheduling cursor nextStartTimeRef.  Times are in     *)
(* units of one chunk of the shortest duration; currentTime is the clock   *)
(* of the AudioContext in outputAudioContextRef, which starts at 0 when    *)
(* the context is created.                                                 *)
(***************************************************************************)
Durations == {1, 2}

\* source.start(nextStartTimeRef.current) without raising the cursor to the
\* clock first
scheduleChunkNoClamp(st, i, d) ==
  [st EXCEPT
     !.sources = Append(@, [session |-> i, ctx |-> st.outputAudioContextRef,
                            now |-> st.currentTime, at |-> st.nextStartTimeRef,
                            duration |-> d, state |-> "scheduled"]),
     !.nextStartTimeRef = st.nextStartTimeRef + d,
     !.sourcesRef = IF build = "part_004" THEN @ \cup {Len(st.sources) + 1} ELSE @]

\* the audio branch of onmessage for a chunk of duration d:
\*   if (nextStartTimeRef.current < now) nextStartTimeRef.current = now;
\*   source.start(nextStartTimeRef.current);
\*   nextStartTimeRef.current += buffer.duration;
\* and, in part_004, sourcesRef.current.add(source)
scheduleChunk(st, i, d) ==
  LET now == st.currentTime
      cursor == IF st.nextStartTimeRef < now THEN now ELSE st.nextStartTimeRef
  IN [st EXCEPT
        !.sources = Append(@, [session |-> i, ctx |-> st.outputAudioContextRef,
                               now |-> now, at |-> cursor,
                               duration |-> d, state |-> "scheduled"]),
        !.nextStartTimeRef = cursor + d,
        !.sourcesRef = IF build = "part_004" THEN @ \cup {Len(st.sources) + 1}
                       ELSE @]

\* a server message with audio data arrives on the connection of session i;
\* without an output context (after stopSession) the handler skips the chunk
AudioMessage(i, d) ==
  /\ i \in 1..Len(starts)
  /\ transport[i] = "open"
  /\ Len(sources) < MaxChunks
  /\ outputAudioContextRef # 0
  /\ Commit(scheduleChunk(Cur, i, d))
  /\ UNCHANGED <<build, apiKey, appVars, srvVars, chatVars, uiVars, starts, toolVars>>

\* the audio clock of the output context advances
Tick ==
  /\ outputAudioContextRef # 0
  /\ currentTime < MaxTime
  /\ Commit([Cur EXCEPT !.currentTime = @ + 1])
  /\ UNCHANGED <<build, apiKey, appVars, srvVars, chatVars, uiVars, starts, toolVars>>

\* source k has played to its end: source.onended, which part_004 sets to
\* sourcesRef.current.delete(source)
onended(k) ==
  /\ k \in 1..Len(sources)
  /\ sources[k].state = "scheduled"
  /\ sources[k].ctx = outputAudioContextRef
  /\ sources[k].at + sources[k].duration <= currentTime
  /\ Commit([Cur EXCEPT !.sources[k].state = "ended", !.sourcesRef = @ \ {k}])
  /\ UNCHANGED <<build, apiKey, appVars, srvVars, chatVars, uiVars, starts, toolVars>>

Audio ==
  \/ \E i \in 1..MaxStarts + 1 : \E d \in Durations : AudioMessage(i, d)
  \/ Tick
  \/ \E k \in 1..MaxChunks + 1 : onended(k)

AudioNext == StartClick(MaxStarts) \/ Events \/ Overlap \/ Audio

AudioSpec == Init /\ [][AudioNext]_vars

(***************************************************************************)
(* Audio input: processor.onaudioprocess.  A window is known by its place  *)
(* in the capture order; captured[w] tells the session whose processor     *)
(* took window w and the state of its connection at that moment.           *)
(***************************************************************************)
Captured(st, i) == [session |-> i, transport |-> st.transport[i]]

\* the processor of session i exists (part_004 sets it up right after
\* calling connect, VoiceAssistant.tsx once connect has resolved), was not
\* disconnected, and its context is running
Processing(i) ==
  /\ \E p \in processors : p.session = i /\ p.ctx \in ctxOpen
  /\ <<"processor", i>> \notin released

\* onaudioprocess for one window: the level is computed and set, then the
\* window goes to sendRealtimeInput, in part_004 through sessionPromise.then
\* (at once when the promise is resolved, when it resolves while it is
\* pending, and never when it was rejected), in VoiceAssistant.tsx directly
\* unless isConnectedRef is false
onaudioprocess(st, i) ==
  LET w == Len(st.captured) + 1
      took == [st EXCEPT !.captured = Append(@, Captured(st, i))]
      sent == [took EXCEPT !.realtimeInput = Append(@, [session |-> i, window |-> w])]
  IN IF build = "part_004"
     THEN IF starts[i].pc = "done" THEN sent
          ELSE IF starts[i].pc = "failed" THEN took
          ELSE [took EXCEPT !.pendingInput = Append(@, w)]
     ELSE IF st.isConnectedRef THEN sent ELSE took

\* the audio hardware delivers the next window of 4096 samples
MicWindow(i) ==
  /\ i \in 1..Len(starts)
  /\ Processing(i)
  /\ Len(captured) < MaxWindows
  /\ Commit(onaudioprocess(Cur, i))
  /\ UNCHANGED <<build, apiKey, appVars, srvVars, chatVars, uiVars, starts, toolVars>>

\* the start control is clicked only when no earlier startSession is still
\* under way and no earlier connection is up: sessions one after the other
StartAfterStop ==
  /\ \A j \in 1..Len(starts) :
       starts[j].pc \in {"done", "failed"} /\ transport[j] \notin {"connecting", "open"}
  /\ StartClick(MaxStarts)

MicNext == StartClick(MaxStarts) \/ Events \/ Overlap \/ \E i \in 1..MaxStarts : MicWindow(i)

MicSpec == Init /\ [][MicNext]_vars

(***************************************************************************)
(* normalizeEmail on its own: the address the model dictates is drawn from *)
(* the spoken forms "<local> at <domain> dot <tld>", in several cases,     *)
(* with extra blanks and with punctuation around them, and from texts that *)
(* are no address.                                                         *)
(***************************************************************************)
Locals == {<<"v">>, <<"V", "1">>}
Domains == {<<"e">>}
Tlds == {<<"c", "o">>, <<"a", "t">>}
AtWords == {<<" ", "a", "t", " ">>, <<" ", "A", "T", " ">>,
            <<" ", " ", "a", "t", " ", " ">>}
DotWords == {<<" ", "d", "o", "t", " ">>, <<" ", " ", "d", "o", "t", " ">>}
Leads == {<<>>, <<" ">>, <<"<">>}
Trails == {<<>>, <<" ">>, <<".">>, <<">">>}

SpokenParts ==
  [lead : Leads, local : Locals, at : AtWords, domain : Domains,
   dot : DotWords, tld : Tlds, trail : Trails]

Spoken(p) == p.lead \o p.local \o p.at \o p.domain \o p.dot \o p.tld \o p.trail

Lower(s) == [n \in 1..Len(s) |-> toLowerCase(s[n])]

\* local@domain.tld, in lower case
Address(p) == Lower(p.local) \o <<"@">> \o Lower(p.domain) \o <<".">> \o Lower(p.tld)

\* the same addresses as they are written
Written == {Address(p) : p \in SpokenParts}

EmailInputs == {Spoken(p) : p \in SpokenParts} \cup Written \cup Emails

\* const cleanedEmail = normalizeEmail(args.attendeeEmail)
Normalize ==
  /\ cleanedEmail = NotCalled
  /\ cleanedEmail' = normalizeEmail(attendeeEmail)
  /\ UNCHANGED <<voiceVars, srvVars, chatVars, vision, attendeeEmail, oauthVars>>

EmailInit ==
  /\ ClientInit /\ ServerBoot("session") /\ ~token /\ ChatInit
  /\ vision = VisionIdle /\ OAuthIdle
  /\ attendeeEmail \in EmailInputs
  /\ cleanedEmail = NotCalled

EmailSpec == EmailInit /\ [][Normalize]_vars

(***************************************************************************)
(* VideoAnalyzer (part_003): the live vision session and the analysis of   *)
(* an uploaded clip.  One record holds the component's state and refs;     *)
(* runs[i] is the i-th startLiveVision call with the connection it asked   *)
(* for, and its stream, contexts and frame timer are known by i.           *)
(***************************************************************************)
MaxUploads == 1      \* files chosen in one behaviour
MaxAnalyses == 1     \* analyzeVideo calls in one behaviour

VisionRelease(v, r) ==
  IF r \in v.released THEN [v EXCEPT !.doubled = @ \cup {r}]
  ELSE [v EXCEPT !.released = @ \cup {r}]

VisionRuns == 1..Len(vision.runs)

\* stopLiveVision: sessionRef and frameIntervalRef are used when set, both
\* contexts are closed when set, and the tracks of the stream attached to the
\* video element are stopped; no ref is cleared.  setIsLive(false) takes the
\* video element, which is rendered only while isLive, off the page: what
\* was attached to it is out of reach afterwards
stopLiveVision(v) ==
  LET a == IF v.sessionRef = 0 THEN v
           ELSE VisionRelease(v, <<"session", v.sessionRef>>)
      b == IF a.frameIntervalRef = 0 THEN a
           ELSE [a EXCEPT !.intervals = @ \ {a.frameIntervalRef}]
      c == IF b.audioContextRef = 0 THEN b
           ELSE VisionRelease(b, <<"context", b.audioContextRef>>)
      d == IF c.outputAudioContextRef = 0 THEN c
           ELSE VisionRelease(c, <<"context", c.outputAudioContextRef>>)
      e == IF d.srcObject = 0 THEN d
           ELSE VisionRelease(d, <<"stream", d.srcObject>>)
  IN [e EXCEPT !.isLive = FALSE,
               !.ctxOpen = @ \ {v.audioContextRef, v.outputAudioContextRef},
               !.tracksLive = @ \ {v.srcObject},
               !.srcObject = 0]

\* decodeAudioData of services/audioUtils is not among the sources; it is
\* taken as decodeFromTransport, a computation over the chunk's samples that
\* shares no state.  The handler awaits it: while a decode is pending the
\* audio clock runs on and every other event of the page is handled, further
\* messages included; the decodes are resolved in the order of their calls
DecodePending == vision.decoding # <<>>

VisionStep(v) ==
  /\ vision' = v
  /\ UNCHANGED <<voiceVars, srvVars, chatVars, attendeeEmail, cleanedEmail,
               oauthVars>>

\* click on "Live Camera", the label of the button while isLive is false:
\* startLiveVision up to its await of getUserMedia (at most limit calls in
\* one behaviour)
startLiveVision(limit) ==
  /\ ~vision.isLive
  /\ vision.started < limit
  /\ VisionStep([vision EXCEPT
       !.error = "", !.isLoading = TRUE, !.started = @ + 1,
       !.runs = Append(@, [pc |-> "awaitMedia", transport |-> "none"])])

\* getUserMedia of call i rejects: catch { setError(...); setIsLoading(false) }
mediaDenied(i) ==
  /\ i \in VisionRuns
  /\ vision.runs[i].pc = "awaitMedia"
  /\ VisionStep([vision EXCEPT !.error = "Camera/Mic access denied.",
                               !.isLoading = FALSE,
                               !.runs[i].pc = "returned"])

\* getUserMedia of call i resolves: the stream is attached to the video
\* element if there is one, both contexts are created and the connection is
\* requested
mediaGranted(i) ==
  /\ i \in VisionRuns
  /\ vision.runs[i].pc = "awaitMedia"
  /\ VisionStep([vision EXCEPT
       !.tracksLive = @ \cup {i},
       !.srcObject = IF vision.isLive THEN i ELSE @,
       !.audioContextRef = InCtx(i),
       !.outputAudioContextRef = OutCtx(i),
       !.ctxOpen = @ \cup {InCtx(i), OutCtx(i)},
       !.currentTime = 0,
       !.runs[i] = [pc |-> "returned", transport |-> "connecting"]])

\* onopen of connection i: the processor and the frame interval are set up
visionOpen(i) ==
  /\ i \in VisionRuns
  /\ vision.runs[i].transport = "connecting"
  /\ VisionStep([vision EXCEPT !.runs[i].transport = "open",
                               !.isLive = TRUE,
                               !.isLoading = FALSE,
                               !.frameIntervalRef = i,
                               !.intervals = @ \cup {i}])

\* onerror of connection i: setError('Live connection lost.'); stopLiveVision()
visionError(i) ==
  /\ i \in VisionRuns
  /\ vision.runs[i].transport \in {"connecting", "open"}
  /\ VisionStep(stopLiveVision([vision EXCEPT !.runs[i].transport = "closed",
                                  !.error = "Live connection lost."]))

\* click on "Stop Camera", the label of the camera button while isLive, or
\* on "Upload Video", which is there at any time and also drops the file
\* (at most limit clicks in one behaviour)
visionStopClick(upload, limit) ==
  /\ upload \/ vision.isLive
  /\ vision.teardowns < limit
  /\ VisionStep(stopLiveVision([vision EXCEPT
       !.teardowns = @ + 1,
       !.videoFile = IF upload THEN FALSE ELSE @]))

\* nextStartTimeRef.current = Math.max(nextStartTimeRef.current, ctx.currentTime)
raiseCursor(v) ==
  [v EXCEPT !.nextStartTimeRef = IF @ >= v.currentTime THEN @ ELSE v.currentTime]

\* onmessage of connection i with audio data, up to its await of
\* decodeAudioData; ctx is the output context the ref holds at this moment
visionMessage(i, d) ==
  /\ i \in VisionRuns
  /\ vision.runs[i].transport = "open"
  /\ vision.outputAudioContextRef # 0
  /\ vision.arrived < MaxChunks
  /\ VisionStep([raiseCursor(vision) EXCEPT
                   !.arrived = @ + 1,
                   !.decoding = Append(@, [seq |-> vision.arrived + 1,
                                           ctx |-> vision.outputAudioContextRef,
                                           duration |-> d])])

\* the handler resumes with the decoded buffer, on the context it took
\* before the await:
\*   source.start(nextStartTimeRef.current);
\*   nextStartTimeRef.current += buffer.duration
\* now is the clock at this moment, which the model knows while the
\* handler's context is still the one the ref holds (clocked)
decoded ==
  /\ DecodePending
  /\ LET m == Head(vision.decoding)
     IN VisionStep([vision EXCEPT
          !.decoding = Tail(@),
          !.sources = Append(@, [seq |-> m.seq, ctx |-> m.ctx,
                                 clocked |-> m.ctx = vision.outputAudioContextRef,
                                 now |-> vision.currentTime,
                                 at |-> vision.nextStartTimeRef,
                                 duration |-> m.duration]),
          !.nextStartTimeRef = @ + m.duration])

\* the audio clock of the output context advances
visionTick ==
  /\ vision.outputAudioContextRef \in vision.ctxOpen
  /\ vision.currentTime < MaxTime
  /\ VisionStep([vision EXCEPT !.currentTime = @ + 1])

\* a file is chosen in the file input, which is rendered while there is
\* neither a live session nor a file: one above 20 MB is turned down, any
\* other is kept and handed to a FileReader
handleFileChange(big) ==
  /\ ~vision.isLive /\ ~vision.videoFile
  /\ vision.uploads < MaxUploads
  /\ VisionStep(IF big
                THEN [vision EXCEPT !.uploads = @ + 1,
                                    !.error = "Video exceeds 20MB limit."]
                ELSE [vision EXCEPT !.uploads = @ + 1,
                                    !.videoFile = TRUE,
                                    !.reading = @ + 1])

\* reader.onloadend: setBase64Video((reader.result as string).split(',')[1]).
\* The part after the comma is the file's data ("data"), the empty string
\* for a file without bytes ("empty"); when the read failed the result is
\* null, split throws and nothing is stored ("null")
ReadResults == {"data", "empty", "null"}

onloadend(result) ==
  /\ vision.reading > 0
  /\ VisionStep([vision EXCEPT
       !.reading = @ - 1,
       !.base64Video = IF result = "null" THEN @ ELSE result = "data"])

\* click on "Analyze Clip", rendered while a file is shown and disabled
\* while isLoading: analyzeVideo up to its await of generateContent (it
\* returns at once without base64Video)
analyzeVideo ==
  /\ ~vision.isLive /\ vision.videoFile
  /\ vision.base64Video /\ ~vision.isLoading
  /\ vision.analyses < MaxAnalyses
  /\ VisionStep([vision EXCEPT !.isLoading = TRUE, !.analysis = "",
                               !.analyses = @ + 1, !.analyzing = @ + 1])

\* generateContent returns or throws: the text or the error is shown, and
\* finally { setIsLoading(false) }
analyzeReturns(ok) ==
  /\ vision.analyzing > 0
  /\ VisionStep(IF ok
                THEN [vision EXCEPT !.analyzing = @ - 1, !.isLoading = FALSE,
                                    !.analysis = "text"]
                ELSE [vision EXCEPT !.analyzing = @ - 1, !.isLoading = FALSE,
                                    !.error = "generateContent failed"])

\* a start of the live session up to its connection
VisionStart(limit) ==
  \/ startLiveVision(limit)
  \/ \E i \in 1..MaxStarts + 1 : mediaDenied(i)
  \/ \E i \in 1..MaxStarts + 1 : mediaGranted(i)
  \/ \E i \in 1..MaxStarts + 1 : visionOpen(i)

VisionLifecycle(stops) ==
  \/ VisionStart(MaxStarts)
  \/ \E i \in 1..MaxStarts + 1 : visionError(i)
  \/ \E upload \in BOOLEAN : visionStopClick(upload, stops)

VisionUpload ==
  \/ \E big \in BOOLEAN : handleFileChange(big)
  \/ \E result \in ReadResults : onloadend(result)
  \/ analyzeVideo
  \/ \E ok \in BOOLEAN : analyzeReturns(ok)

\* the live session with its audio output
VisionNext ==
  \/ VisionLifecycle(1)
  \/ \E i \in 1..MaxStarts + 1 : \E d \in Durations : visionMessage(i, d)
  \/ decoded
  \/ visionTick

\* VideoAnalyzer's specifications leave the voice assistant as mounted
VisionInit == Init /\ build = "part_004" /\ apiKey

VisionSpec == VisionInit /\ [][VisionNext]_vars

\* the live session and the uploaded clip, without the audio output
StopNext == VisionLifecycle(MaxTeardowns) \/ VisionUpload

StopSpec == VisionInit /\ [][StopNext]_vars


(***************************************************************************)
(* Calendar Service as the client sees it: BackendCalendar.                *)
(***************************************************************************)
\* a JavaScript object with the fields the tool results and the server's
\* answers use
Obj == [ok |-> Absent, error |-> Absent, note |-> Absent, reason |-> Absent,
        busy |-> Absent, isFree |-> Absent, eventId |-> Absent,
        events |-> Absent]

NetworkError == [kind |-> "network_error", ok |-> FALSE, data |-> Obj]
Pending == [kind |-> "pending", ok |-> FALSE, data |-> Obj]
Http(ok, data) == [kind |-> "http", ok |-> ok, data |-> data]

\* JavaScript values of the object fields, as text
True == "true"
False == "false"
NoBusy == "[]"
BusySlot == "[{start:T09,end:T10}]"

\* what POST /api/calendar/schedule answers: ok and the refusals of the
\* session server (401, 400, and 500 from its catch clause), and the
\* conflict and the refusals of the first server (401 and 400 from its catch
\* clause, which answers with the message of what scheduleMeeting threw)
AnsOk == [Obj EXCEPT !.ok = True, !.eventId = "evt"]
AnsConflict == [Obj EXCEPT !.ok = False, !.reason = "conflict", !.busy = BusySlot]
AnsUnauthorized ==
  [Obj EXCEPT !.ok = False,
              !.error = "Unauthorized: Please connect Google Calendar first."]
AnsBadRequest ==
  [Obj EXCEPT !.ok = False,
     !.error = "Missing required fields: title, attendeeEmail, startIso, endIso"]
AnsZodError == [Obj EXCEPT !.error = "ZodError"]
AnsNoToken ==
  [Obj EXCEPT !.error = "Calendar not connected. Authorize via /api/auth/url."]
AnsGoogleError(b) ==
  IF b = "legacy" THEN [Obj EXCEPT !.error = "Google API error"]
  ELSE [Obj EXCEPT !.ok = False, !.error = "Google API error"]
ScheduleOutcomes ==
  {Http(TRUE, AnsOk), Http(FALSE, AnsBadRequest), Http(FALSE, AnsUnauthorized),
   Http(FALSE, AnsGoogleError("session")),
   Http(TRUE, AnsConflict), Http(FALSE, AnsZodError), Http(FALSE, AnsNoToken),
   Http(FALSE, AnsGoogleError("legacy")),
   NetworkError}

\* what GET /api/calendar/freebusy of the session server answers
AnsFree == [Obj EXCEPT !.isFree = True, !.busy = NoBusy]
AnsBusy == [Obj EXCEPT !.isFree = False, !.busy = BusySlot]
AnsNotAuthenticated ==
  [Obj EXCEPT !.isFree = False, !.busy = NoBusy, !.note = "Not authenticated"]
AnsMissingParams ==
  [Obj EXCEPT !.error = "Missing or invalid parameters: timeMin, timeMax"]
FreeBusyOutcomes ==
  {Http(TRUE, AnsFree), Http(TRUE, AnsBusy), Http(TRUE, AnsNotAuthenticated),
   Http(FALSE, AnsMissingParams), Http(FALSE, AnsGoogleError("legacy")),
   NetworkError}

\* GET /api/calendar/events of the session server: 200 with a list, which is
\* empty when there is no event, when the caller is not connected and when
\* events.list failed, and 400 for a request without timeMin or timeMax
Arr(items) == [array |-> items]
AnsEvents(items) == [Obj EXCEPT !.events = items]
AnsMissingList ==
  [Obj EXCEPT !.error = "Missing required parameters: timeMin, timeMax"]
ListOutcomes ==
  {Http(TRUE, AnsEvents("[evt]")), Http(TRUE, AnsEvents("[]")),
   Http(TRUE, [AnsEvents("[]") EXCEPT !.error = "Google API error"]),
   Http(FALSE, AnsMissingList), NetworkError}

Return(v) == [threw |-> FALSE, value |-> v, message |-> ""]
Throw(m) == [threw |-> TRUE, value |-> Obj, message |-> m]

\* BackendCalendar.schedule, from the answer of its fetch on
schedule(outcome) ==
  IF outcome.kind = "network_error" THEN Throw("Failed to fetch")
  ELSE IF outcome.data.ok = True THEN Return(outcome.data)
  ELSE Throw(IF outcome.data.error # Absent THEN outcome.data.error
             ELSE "Scheduling failed")

\* BackendCalendar.freeBusy, from the answer of its fetch on
freeBusy(outcome) ==
  IF outcome.kind = "network_error" THEN Throw("Failed to fetch")
  ELSE IF ~outcome.ok THEN Throw("FreeBusy check failed")
  ELSE Return(outcome.data)

\* BackendCalendar.listEvents: its own catch clause turns every failure into
\* an empty list
listEvents(outcome) ==
  IF outcome.kind = "network_error" \/ ~outcome.ok THEN Return(Arr("[]"))
  ELSE Return(Arr(IF outcome.data.events # Absent THEN outcome.data.events
                  ELSE "[]"))

(***************************************************************************)
(* Tool-call dispatcher: the tool-call part of onmessage.                  *)
(***************************************************************************)
\* the arguments of a function call; a text argument that is not given is
\* Absent, an e-mail that is not given is the empty sequence
NoEmail == <<>>
Args == [title |-> Absent, attendeeEmail |-> NoEmail, startIso |-> Absent,
         endIso |-> Absent, timeMin |-> Absent, timeMax |-> Absent]

\* !args?.f of JavaScript for the values an argument takes here
Falsy(f, v) == IF f = "attendeeEmail" THEN v = NoEmail ELSE v \in {Absent, ""}

Pick(names, args) == SelectSeq(names, LAMBDA f : Falsy(f, args[f]))

pickMissingScheduleFields(args) ==
  Pick(<<"title", "attendeeEmail", "startIso", "endIso">>, args)

pickMissingFreeBusyFields(args) == Pick(<<"timeMin", "timeMax">>, args)

\* missing.join(", ")
RECURSIVE join(_)
join(names) ==
  IF names = <<>> THEN ""
  ELSE IF Len(names) = 1 THEN names[1]
  ELSE names[1] \o ", " \o join(Tail(names))

MissingMessage(missing) == "Missing required fields: " \o join(missing)
InvalidEmailMessage ==
  "Invalid email. Please repeat slowly like: name at domain dot com."

Respond(r) == [kind |-> "respond", response |-> r, op |-> "", payload |-> Args]
Await(op, payload) ==
  [kind |-> "await", response |-> Obj, op |-> op, payload |-> payload]
Propagate == [kind |-> "propagate", response |-> Obj, op |-> "", payload |-> Args]

\* a dispatcher without the catch clause: the exception leaves the handler
toolCatchRethrows(message) == Propagate

\* the catch clause around the resolution of one function call
toolCatch(message) ==
  IF build = "part_004"
  THEN Respond([Obj EXCEPT !.error = IF message # "" THEN message
                                     ELSE "Tool failed"])
  ELSE Respond([Obj EXCEPT !.ok = False, !.error = message])

\* a mode test that compares with a value the mode never takes
sandboxModeMisspelt(env) == env.mode = "Sandbox"

\* the dispatcher's test of the mode its closure holds
sandboxMode(env) == env.mode = "sandbox"

\* one function call, up to the result or to the await of the Calendar
\* Service; env is the closure of the startSession that registered onmessage
resolve(env, fc) ==
  IF build = "part_004"
  THEN IF sandboxMode(env)
       THEN CASE fc.name = "check_availability" ->
                   Respond([Obj EXCEPT !.isFree = True, !.busy = NoBusy])
              [] fc.name = "schedule_meeting" ->
                   Respond([Obj EXCEPT !.ok = True,
                                       !.note = "Sandbox Booking Confirmed"])
              [] OTHER -> Respond([Obj EXCEPT !.error = "Unknown Error"])
       ELSE CASE fc.name = "check_availability" ->
                   IF pickMissingFreeBusyFields(fc.args) # <<>>
                   THEN Respond([Obj EXCEPT !.error = MissingMessage(
                                   pickMissingFreeBusyFields(fc.args))])
                   ELSE Await("freeBusy", fc.args)
              [] fc.name = "schedule_meeting" ->
                   IF ~env.organizerConnected
                   THEN toolCatch("Calendar not connected")
                   ELSE IF pickMissingScheduleFields(fc.args) # <<>>
                   THEN Respond([Obj EXCEPT !.ok = False,
                                   !.error = MissingMessage(
                                      pickMissingScheduleFields(fc.args))])
                   ELSE IF ~isValidEmail(normalizeEmail(fc.args.attendeeEmail))
                   THEN Respond([Obj EXCEPT !.ok = False,
                                            !.error = InvalidEmailMessage])
                   ELSE Await("schedule",
                              [fc.args EXCEPT !.attendeeEmail =
                                 normalizeEmail(fc.args.attendeeEmail)])
              [] OTHER -> Respond([Obj EXCEPT !.error = "Unknown Error"])
  ELSE IF env.mode = "real" /\ fc.name = "schedule_meeting"
       THEN Await("schedule", fc.args)
       ELSE IF sandboxMode(env)
       THEN Respond([Obj EXCEPT !.ok = True,
                                !.note = "Sandbox mode: Meeting simulated."])
       ELSE Respond([Obj EXCEPT !.ok = True])

\* an await outside the try block: a rejection is nobody's to catch
settleUncaught(op, outcome) ==
  LET got == IF op = "schedule" THEN schedule(outcome) ELSE freeBusy(outcome)
  IN IF got.threw THEN Propagate ELSE Respond(got.value)

\* the awaited BackendCalendar call returns or throws
settle(op, outcome) ==
  LET got == IF op = "schedule" THEN schedule(outcome) ELSE freeBusy(outcome)
  IN IF got.threw THEN toolCatch(got.message) ELSE Respond(got.value)

\* a functionResponse that leaves the call's id out
sendToolResponseNoId(tr, i, fc, r) ==
  [id |-> 0, name |-> fc.name,
   response |-> IF build = "VoiceAssistant" THEN [result |-> r] ELSE r,
   session |-> i, delivered |-> tr[i] = "open"]

\* the response goes through sessionRef.current instead of the session the
\* handler was created with
sendToolResponseViaRef(tr, i, fc, r) ==
  [id |-> fc.id, name |-> fc.name,
   response |-> IF build = "VoiceAssistant" THEN [result |-> r] ELSE r,
   session |-> sessionRef,
   delivered |-> sessionRef # 0 /\ tr[sessionRef] = "open"]

\* s.sendToolResponse({functionResponses: [{id, name, response}]}) on the
\* connection of session i; a connection that is not open sends nothing
sendToolResponse(tr, i, fc, r) ==
  [id |-> fc.id, name |-> fc.name,
   response |-> IF build = "VoiceAssistant" THEN [result |-> r] ELSE r,
   session |-> i, delivered |-> tr[i] = "open"]

Payload(sent) ==
  IF "result" \in DOMAIN sent.response THEN sent.response.result ELSE sent.response

\* a loop that gives up on the message at the first call whose result is an
\* error
RECURSIVE loopEndsOnError(_, _, _, _, _)
loopEndsOnError(tr, h, n, step, out) ==
  CASE step.kind = "respond" ->
         LET sent == Append(out.sent,
                            sendToolResponse(tr, h.session, h.calls[n], step.response))
         IN IF n = Len(h.calls) \/ step.response.error # Absent
            THEN [out EXCEPT !.sent = sent, !.next = n + 1, !.state = "done"]
            ELSE loopEndsOnError(tr, h, n + 1, h.steps[n + 1],
                                 [out EXCEPT !.sent = sent])
    [] step.kind = "await" ->
         [out EXCEPT !.next = n, !.state = "awaiting",
                     !.req = Append(out.req,
                               [call |-> h.calls[n].id, op |-> step.op,
                                payload |-> step.payload, outcome |-> Pending])]
    [] OTHER -> [out EXCEPT !.next = n, !.state = "crashed"]

\* the for loop over functionCalls from call n on, with the result `step` of
\* call n at hand, up to the next await or the end of the loop. What a call
\* resolves to depends on the call and on the closure only; the handler h
\* holds it per call in h.steps, worked out when the message arrived.
RECURSIVE loop(_, _, _, _, _)
loop(tr, h, n, step, out) ==
  CASE step.kind = "respond" ->
         LET sent == Append(out.sent,
                            sendToolResponse(tr, h.session, h.calls[n], step.response))
         IN IF n = Len(h.calls)
            THEN [out EXCEPT !.sent = sent, !.next = n + 1, !.state = "done"]
            ELSE loop(tr, h, n + 1, h.steps[n + 1],
                      [out EXCEPT !.sent = sent])
    [] step.kind = "await" ->
         [out EXCEPT !.next = n, !.state = "awaiting",
                     !.req = Append(out.req,
                               [call |-> h.calls[n].id, op |-> step.op,
                                payload |-> step.payload, outcome |-> Pending])]
    [] OTHER -> [out EXCEPT !.next = n, !.state = "crashed"]

Delivered == LET RECURSIVE Sum(_)
                 Sum(k) == IF k = 0 THEN 0 ELSE Len(handlers[k].calls) + Sum(k - 1)
             IN Sum(Len(handlers))

\* the arguments the model passes: complete ones with each kind of e-mail,
\* and ones that lack one, two or all of the required fields
Complete(e) == [Args EXCEPT !.title = "Sync", !.attendeeEmail = e,
                            !.startIso = "T09", !.endIso = "T10"]
ScheduleArgs ==
  {Complete(e) : e \in Emails}
  \cup {[Complete(EmailPlain) EXCEPT !.attendeeEmail = NoEmail],
        [Complete(EmailPlain) EXCEPT !.startIso = ""],
        [Complete(EmailBad) EXCEPT !.title = Absent, !.endIso = Absent],
        Args}

FreeBusyArgs ==
  {[Args EXCEPT !.timeMin = "T09", !.timeMax = "T10"],
   [Args EXCEPT !.timeMin = "T09"],
   Args}

\* the function calls the model can make: the declared tools of each build.
\* VoiceAssistant.tsx hands fc.args on unread, so three argument records
\* stand for all of them there.
ToolCalls ==
  IF build = "part_004"
  THEN {[name |-> "schedule_meeting", args |-> x] : x \in ScheduleArgs}
       \cup {[name |-> "check_availability", args |-> x] : x \in FreeBusyArgs}
  ELSE {[name |-> "schedule_meeting", args |-> x] :
          x \in {Complete(EmailPlain), Complete(EmailBad),
                 [Complete(EmailPlain) EXCEPT !.attendeeEmail = NoEmail]}}

\* a toolCall message with the function calls `batch` arrives on connection i
onmessage(i, batch, limit) ==
  /\ i \in 1..Len(starts)
  /\ transport[i] = "open"
  /\ Len(batch) >= 1
  /\ Delivered + Len(batch) <= limit
  /\ LET calls == [n \in 1..Len(batch) |->
                     [id |-> Delivered + n, name |-> batch[n].name,
                      args |-> batch[n].args]]
         h == [session |-> i, env |-> starts[i], calls |-> calls,
               steps |-> [n \in 1..Len(batch) |-> resolve(starts[i], calls[n])],
               next |-> 1, state |-> "running"]
         out == loop(transport, h, 1, h.steps[1],
                     [sent |-> <<>>, req |-> <<>>, next |-> 1, state |-> "running"])
     IN /\ handlers' = Append(handlers, [h EXCEPT !.next = out.next,
                                                  !.state = out.state])
        /\ requests' = requests \o out.req
        /\ toolResponses' = toolResponses \o out.sent
  /\ UNCHANGED <<build, apiKey, appVars, srvVars, chatVars, uiVars, lifeVars, starts>>

\* scheduleSchema.parse of calendar.ts: zod's e-mail pattern is narrower than
\* isValidEmail; the two agree on the addresses the model passes
scheduleSchema(body) ==
  /\ body.title # Absent /\ Len(body.title) >= 2
  /\ body.attendeeEmail # NoEmail /\ isValidEmail(body.attendeeEmail)
  /\ body.startIso \notin {Absent, ""}
  /\ body.endIso \notin {Absent, ""}

\* what the Calendar Service can answer to a request of BackendCalendar. The
\* session server turns a schedule body that lacks a required field down
\* before anything else, the first server one that scheduleSchema rejects.
\* BackendCalendar sends timeMin and timeMax as text whatever they are, so
\* the session server's test for them passes.
ScheduleAnswers(payload) ==
  (IF pickMissingScheduleFields(payload) # <<>> THEN {Http(FALSE, AnsBadRequest)}
   ELSE {Http(TRUE, AnsOk), Http(FALSE, AnsUnauthorized),
         Http(FALSE, AnsGoogleError("session"))})
  \cup
  (IF ~scheduleSchema(payload) THEN {Http(FALSE, AnsZodError)}
   ELSE {Http(TRUE, AnsOk), Http(TRUE, AnsConflict), Http(FALSE, AnsNoToken),
         Http(FALSE, AnsGoogleError("legacy"))})
  \cup {NetworkError}

Answers(op, payload) ==
  IF op = "schedule" THEN ScheduleAnswers(payload)
  ELSE IF op = "listEvents" THEN ListOutcomes \ {Http(FALSE, AnsMissingList)}
  ELSE FreeBusyOutcomes \ {Http(FALSE, AnsMissingParams)}

\* the Calendar Service answers request k, and the handler that awaits it
\* goes on
BackendReturn(k, outcome) ==
  /\ k \in 1..Len(requests)
  /\ requests[k].outcome = Pending
  /\ outcome \in Answers(requests[k].op, requests[k].payload)
  /\ \E j \in {x \in 1..Len(handlers) :
                 /\ handlers[x].state = "awaiting"
                 /\ handlers[x].calls[handlers[x].next].id = requests[k].call} :
       \E out \in {loop(transport, handlers[j], handlers[j].next,
                        settle(requests[k].op, outcome),
                        [sent |-> <<>>, req |-> <<>>, next |-> handlers[j].next,
                         state |-> "running"])} :
         /\ handlers' = [handlers EXCEPT ![j].next = out.next,
                                         ![j].state = out.state]
         /\ requests' = [requests EXCEPT ![k].outcome = outcome] \o out.req
         /\ toolResponses' = toolResponses \o out.sent
  /\ UNCHANGED <<build, apiKey, appVars, srvVars, chatVars, uiVars, lifeVars, starts>>

Batches(pool, limit) ==
  UNION {[1..n -> pool] : n \in 1..limit}

Tools(pool, limit) ==
  \/ \E i \in 1..MaxStarts + 1 : \E batch \in Batches(pool, limit - Delivered) :
       onmessage(i, batch, limit)
  \/ \E k \in 1..MaxCalls + 1 :
       \E outcome \in Answers("schedule", Args) \cup ScheduleOutcomes
                         \cup FreeBusyOutcomes :
         BackendReturn(k, outcome)

Next == StartClick(1) \/ Events \/ Ui(1) \/ Tools(ToolCalls, MaxCalls)

Spec == Init /\ [][Next]_vars


(***************************************************************************)
(* ChatBot.handleSend of VoiceAssistant.tsx: one turn of the text chat.    *)
(***************************************************************************)
ChatArgs == [summary |-> Absent, startTime |-> Absent, endTime |-> Absent,
             attendeeEmail |-> NoEmail, timeMin |-> Absent, timeMax |-> Absent]
CreateEvent == [ChatArgs EXCEPT !.summary = "Sync", !.startTime = "T09",
                                !.endTime = "T10", !.attendeeEmail = EmailPlain]

\* the function calls a reply of the model can carry: the two declared tools,
\* and a name that is not declared
ChatCalls ==
  {[name |-> "list_events",
    args |-> [ChatArgs EXCEPT !.timeMin = "T09", !.timeMax = "T10"]],
   [name |-> "create_event", args |-> CreateEvent],
   [name |-> "create_event", args |-> [CreateEvent EXCEPT !.attendeeEmail = NoEmail]],
   [name |-> "delete_event", args |-> ChatArgs]}

\* a catch clause that hides the exception's message
chatCatchHidesMessage(message) == Respond([Obj EXCEPT !.error = "Tool failed"])

\* the catch clause around one function call of the chat
chatCatch(message) == Respond([Obj EXCEPT !.error = message])

\* one function call of the reply, up to its result or to its await
chatResolve(call) ==
  IF call.name = "list_events"
  THEN Await("listEvents", [Args EXCEPT !.timeMin = call.args.timeMin,
                                        !.timeMax = call.args.timeMax])
  ELSE IF call.name = "create_event"
  THEN Await("schedule", [Args EXCEPT !.title = call.args.summary,
                                      !.startIso = call.args.startTime,
                                      !.endIso = call.args.endTime,
                                      !.attendeeEmail = call.args.attendeeEmail])
  ELSE Respond([Obj EXCEPT !.error = "Unknown tool"])

chatSettle(op, outcome) ==
  LET got == IF op = "schedule" THEN schedule(outcome) ELSE listEvents(outcome)
  IN IF got.threw THEN chatCatch(got.message) ELSE Respond(got.value)

\* the for loop over functionCalls from call n on, with the result `step` of
\* call n at hand, up to the next await or to the follow-up request
RECURSIVE chatLoop(_, _, _, _)
chatLoop(c, n, step, req) ==
  CASE step.kind = "respond" ->
         LET pushed == Append(c.functionResponses,
                              [name |-> c.calls[n].name, id |-> c.calls[n].id,
                               response |-> [result |-> step.response]])
         IN IF n = Len(c.calls)
            THEN [chat |-> [c EXCEPT !.functionResponses = pushed,
                                     !.next = n + 1, !.pc = "followUp"],
                  req |-> req, sent |-> <<pushed>>]
            ELSE chatLoop([c EXCEPT !.functionResponses = pushed], n + 1,
                          chatResolve(c.calls[n + 1]), req)
    [] step.kind = "await" ->
         [chat |-> [c EXCEPT !.next = n, !.pc = "tools"],
          req |-> Append(req, [call |-> c.calls[n].id, op |-> step.op,
                               payload |-> step.payload, outcome |-> Pending]),
          sent |-> <<>>]
    [] OTHER -> [chat |-> [c EXCEPT !.next = n, !.pc = "threw"],
                 req |-> req, sent |-> <<>>]

RECURSIVE SumLen(_)
SumLen(ss) == IF ss = <<>> THEN 0 ELSE Len(Head(ss)) + SumLen(Tail(ss))

Sends == Cardinality({n \in 1..Len(messages) : messages[n] = "user"})
ChatDelivered ==
  SumLen(followUps) + IF chat.pc = "tools" THEN Len(chat.calls) ELSE 0

\* the outcome of a run of the loop: an exception that got out of it lands in
\* handleSend's own catch and finally clauses
ChatCommit(out) ==
  /\ chatRequests' = chatRequests \o out.req
  /\ followUps' = followUps \o out.sent
  /\ IF out.chat.pc = "threw"
     THEN /\ chat' = [out.chat EXCEPT !.pc = "idle"]
          /\ messages' = Append(messages, "error")
          /\ isLoading' = FALSE
     ELSE /\ chat' = out.chat
          /\ UNCHANGED <<messages, isLoading>>

\* the send button with a non-empty input, up to the first generateContent
handleSend(limit) ==
  /\ ~isLoading
  /\ Sends < limit
  /\ messages' = Append(messages, "user")
  /\ isLoading' = TRUE
  /\ chat' = [ChatIdle EXCEPT !.pc = "generate"]
  /\ UNCHANGED <<voiceVars, appVars, srvVars, chatRequests, followUps>>

\* the first generateContent returns a reply with the function calls `batch`
generateContent(batch, limit) ==
  /\ chat.pc = "generate"
  /\ ChatDelivered + Len(batch) <= limit
  /\ IF batch = <<>>
     THEN /\ messages' = Append(messages, "model")
          /\ isLoading' = FALSE
          /\ chat' = [chat EXCEPT !.pc = "idle"]
          /\ UNCHANGED <<chatRequests, followUps>>
     ELSE LET calls == [n \in 1..Len(batch) |->
                          [id |-> ChatDelivered + n, name |-> batch[n].name,
                           args |-> batch[n].args]]
          IN ChatCommit(chatLoop([chat EXCEPT !.calls = calls], 1,
                                 chatResolve(calls[1]), <<>>))
  /\ UNCHANGED <<voiceVars, appVars, srvVars>>

\* the Calendar Service answers the request the chat loop awaits
chatBackendReturn(k, outcome) ==
  /\ k \in 1..Len(chatRequests)
  /\ chatRequests[k].outcome = Pending
  /\ chat.pc = "tools"
  /\ chat.calls[chat.next].id = chatRequests[k].call
  /\ outcome \in Answers(chatRequests[k].op, chatRequests[k].payload)
  /\ LET out == chatLoop(chat, chat.next,
                         chatSettle(chatRequests[k].op, outcome), <<>>)
     IN /\ chatRequests' = [chatRequests EXCEPT ![k].outcome = outcome] \o out.req
        /\ followUps' = followUps \o out.sent
        /\ chat' = out.chat
        /\ UNCHANGED <<messages, isLoading>>
  /\ UNCHANGED <<voiceVars, appVars, srvVars>>

\* the follow-up generateContent returns: the reply is shown
followUpReturns ==
  /\ chat.pc = "followUp"
  /\ messages' = Append(messages, "model")
  /\ isLoading' = FALSE
  /\ chat' = [chat EXCEPT !.pc = "idle"]
  /\ UNCHANGED <<voiceVars, appVars, srvVars, chatRequests, followUps>>

\* either generateContent throws: handleSend's catch shows the error
generateContentThrows ==
  /\ chat.pc \in {"generate", "followUp"}
  /\ messages' = Append(messages, "error")
  /\ isLoading' = FALSE
  /\ chat' = [chat EXCEPT !.pc = "idle"]
  /\ UNCHANGED <<voiceVars, appVars, srvVars, chatRequests, followUps>>

ChatBatches(pool, limit) ==
  {<<>>} \cup UNION {[1..n -> pool] : n \in 1..limit}

Chat(pool, sends, limit) ==
  \/ handleSend(sends)
  \/ \E batch \in ChatBatches(pool, limit - ChatDelivered) :
       generateContent(batch, limit)
  \/ \E k \in 1..MaxCalls + 1 :
       \E outcome \in Answers("schedule", Args) \cup ScheduleOutcomes
                         \cup ListOutcomes :
         chatBackendReturn(k, outcome)
  \/ followUpReturns
  \/ generateContentThrows

ChatNext == Chat(ChatCalls, MaxSends, MaxCalls)

ChatSpec == Init /\ [][ChatNext]_vars

(***************************************************************************)
(* Properties of the tool-call dispatcher.                                 *)
(***************************************************************************)
HandlerIds == 1..Len(handlers)
CallIdx(j) == 1..Len(handlers[j].calls)
Call(j, n) == handlers[j].calls[n]

\* the handler is through with call n: the loop moved past it, or ended
Settled(j, n) == n < handlers[j].next \/ handlers[j].state \in {"done", "crashed"}

ResponsesTo(id) == {r \in 1..Len(toolResponses) : toolResponses[r].id = id}
RequestsFor(id) == {k \in 1..Len(requests) : requests[k].call = id}
ResultOf(id) == Payload(toolResponses[CHOOSE r \in ResponsesTo(id) : TRUE])

\* C1: every function call the model delivers gets exactly one
\* sendToolResponse, carrying its id and name, once the dispatcher is through
\* with it, and none before; every response answers a delivered call of the
\* same session.
C1_ExactlyOneResponse ==
  /\ \A j \in HandlerIds : \A n \in CallIdx(j) :
       Cardinality(ResponsesTo(Call(j, n).id)) = IF Settled(j, n) THEN 1 ELSE 0
  /\ \A r \in 1..Len(toolResponses) :
       \E j \in HandlerIds : \E n \in CallIdx(j) :
         /\ toolResponses[r].id = Call(j, n).id
         /\ toolResponses[r].name = Call(j, n).name
         /\ toolResponses[r].session = handlers[j].session

\* a message of two calls was answered, one of them after the Calendar
\* Service call threw and the other without any request
C1_Witness ==
  \E j \in HandlerIds :
    /\ handlers[j].state = "done"
    /\ Len(handlers[j].calls) = 2
    /\ \E k \in 1..Len(requests) :
         /\ requests[k].call = Call(j, 1).id
         /\ requests[k].outcome = NetworkError
    /\ RequestsFor(Call(j, 2).id) = {}
    /\ Cardinality(ResponsesTo(Call(j, 1).id)) = 1
    /\ Cardinality(ResponsesTo(Call(j, 2).id)) = 1

RealSchedule(j, n) ==
  /\ handlers[j].env.mode = "real"
  /\ Call(j, n).name = "schedule_meeting"

\* C3 (as claimed): a schedule_meeting call in real mode that lacks required
\* fields is answered {ok:false, error:"Missing required fields: <names>"}
\* with exactly the missing names, and no request goes to the Calendar Service.
C3_MissingFieldsClaim ==
  \A j \in HandlerIds : \A n \in CallIdx(j) :
    (RealSchedule(j, n) /\ pickMissingScheduleFields(Call(j, n).args) # <<>>) =>
      /\ RequestsFor(Call(j, n).id) = {}
      /\ Settled(j, n) =>
           ResultOf(Call(j, n).id) =
             [Obj EXCEPT !.ok = False,
                !.error = MissingMessage(pickMissingScheduleFields(Call(j, n).args))]

\* C4 (as claimed): a schedule_meeting call in real mode with all required
\* fields whose attendee e-mail, normalized, is not of the shape
\* local@domain.tld is answered with the "repeat slowly" error, and no request
\* goes to the Calendar Service.
C4_InvalidEmailClaim ==
  \A j \in HandlerIds : \A n \in CallIdx(j) :
    (/\ RealSchedule(j, n)
     /\ pickMissingScheduleFields(Call(j, n).args) = <<>>
     /\ ~isValidEmail(normalizeEmail(Call(j, n).args.attendeeEmail))) =>
      /\ RequestsFor(Call(j, n).id) = {}
      /\ Settled(j, n) => ResultOf(Call(j, n).id).error = InvalidEmailMessage

Success(r) == r.error = Absent /\ (r.ok = True \/ r.isFree = True)

\* C5: a session started in sandbox mode makes no request to the Calendar
\* Service, and answers every function call within the message handler's
\* first run, with a success result.
C5_SandboxIsolation ==
  \A j \in HandlerIds :
    handlers[j].env.mode = "sandbox" =>
      /\ handlers[j].state = "done"
      /\ \A n \in CallIdx(j) :
           /\ RequestsFor(Call(j, n).id) = {}
           /\ ResponsesTo(Call(j, n).id) # {}
           /\ Success(ResultOf(Call(j, n).id))

\* a sandbox session answered a schedule_meeting call
C5_Witness ==
  \E j \in HandlerIds :
    /\ handlers[j].env.mode = "sandbox"
    /\ \E n \in CallIdx(j) :
         /\ Call(j, n).name = "schedule_meeting"
         /\ ResponsesTo(Call(j, n).id) # {}

Threw(k) ==
  /\ requests[k].outcome # Pending
  /\ IF requests[k].op = "schedule" THEN schedule(requests[k].outcome).threw
     ELSE freeBusy(requests[k].outcome).threw

ThrownMessage(k) ==
  IF requests[k].op = "schedule" THEN schedule(requests[k].outcome).message
  ELSE freeBusy(requests[k].outcome).message

\* C6, the state part: no message handler dies of an exception, and a call
\* whose Calendar Service request threw is answered with an error result
\* carrying the exception's message.
C6_Caught ==
  /\ \A j \in HandlerIds : handlers[j].state # "crashed"
  /\ \A k \in 1..Len(requests) :
       Threw(k) =>
         /\ ResponsesTo(requests[k].call) # {}
         /\ ResultOf(requests[k].call).error = ThrownMessage(k)
         /\ ResultOf(requests[k].call).ok # True

\* C6, the step part: the step in which a Calendar Service request is
\* answered leaves the connection and the session state as they are.
C6_SessionKept ==
  \A k \in 1..Len(requests) :
    (requests[k].outcome = Pending /\ requests'[k].outcome # Pending) =>
      UNCHANGED lifeVars

\* the voice applet and the chat side by side, on the calls that reach the
\* Calendar Service
CatchCalls ==
  {c \in ToolCalls : c.args \in {Complete(EmailPlain),
                                 [Args EXCEPT !.timeMin = "T09", !.timeMax = "T10"]}}
CatchChatCalls == {c \in ChatCalls : c.args.attendeeEmail # NoEmail \/
                                     c.name = "list_events"}

CatchNext ==
  \/ StartClick(1) \/ Events \/ UiMode(1)
  \/ Tools(CatchCalls, MaxCalls - ChatDelivered)
  \/ Chat(CatchChatCalls, 1, MaxCalls - Delivered)

CatchSpec == Init /\ [][CatchNext]_vars

ChatResponses ==
  {chat.functionResponses[n] : n \in 1..Len(chat.functionResponses)}
  \cup UNION {{followUps[f][n] : n \in 1..Len(followUps[f])} :
              f \in 1..Len(followUps)}

ChatThrew(k) ==
  /\ chatRequests[k].op = "schedule"
  /\ chatRequests[k].outcome # Pending
  /\ schedule(chatRequests[k].outcome).threw

\* C6, the chat's state part: a create_event call whose request threw has
\* the functionResponse {error: message}
C6_ChatCaught ==
  \A k \in 1..Len(chatRequests) :
    ChatThrew(k) =>
      \E r \in ChatResponses :
        /\ r.id = chatRequests[k].call
        /\ r.response.result =
             [Obj EXCEPT !.error = schedule(chatRequests[k].outcome).message]

\* C6, the chat's step part: the step in which the request is answered shows
\* no error message, keeps the turn going and leaves the voice session alone
C6_ChatKept ==
  \A k \in 1..Len(chatRequests) :
    (chatRequests[k].outcome = Pending /\ chatRequests'[k].outcome # Pending) =>
      /\ UNCHANGED <<lifeVars, messages, isLoading>>
      /\ chat'.pc \in {"tools", "followUp"}

\* C6: an exception of a Calendar Service call is caught at the dispatcher
\* and sent to the model as a structured error result; it does not leave the
\* message handler and does not close the Transport Session. The chat's loop
\* does the same with its functionResponse.
C6_ExceptionsCaught ==
  /\ [](C6_Caught /\ C6_ChatCaught)
  /\ [][C6_SessionKept /\ C6_ChatKept]_vars

\* a schedule request of the voice applet failed on the network, its call
\* was answered and the connection is still open; a create_event request of
\* the chat threw too, and the chat is at its follow-up request
C6_Witness ==
  /\ \E k \in 1..Len(requests) : \E j \in HandlerIds :
       /\ requests[k].outcome = NetworkError
       /\ ResponsesTo(requests[k].call) # {}
       /\ handlers[j].calls[1].id = requests[k].call
       /\ transport[handlers[j].session] = "open"
  /\ \E k \in 1..Len(chatRequests) : ChatThrew(k) /\ chat.pc = "followUp"

\* C7 (as claimed): when the Calendar Service answers a schedule request with
\* a conflict, the result sent to the model still says reason "conflict" and
\* carries the busy intervals.
C7_ConflictSurfacedClaim ==
  \A k \in 1..Len(requests) :
    requests[k].outcome = Http(TRUE, AnsConflict) =>
      /\ ResponsesTo(requests[k].call) # {}
      /\ ResultOf(requests[k].call).reason = "conflict"
      /\ ResultOf(requests[k].call).busy = BusySlot

\* C10 (as claimed): once a session's connection is closed (by the user's
\* stop, by the server, or after an error) or its start has failed,
\* stopSession has run and the controller is idle.
C10_TeardownOnEveryExitClaim ==
  \A i \in 1..Len(starts) :
    (transport[i] = "closed" \/ starts[i].pc = "failed") =>
      /\ teardowns >= 1
      /\ ~isActive
      /\ sessionRef = 0

Live(i) == transport[i] \in {"connecting", "open"}

\* C9 (as claimed): whatever the sequence of start and stop clicks, at most
\* one Transport Session is being connected or open, and at most one pair of
\* audio contexts is open.
C9_SingleSessionClaim ==
  /\ Cardinality({i \in 1..Len(transport) : Live(i)}) <= 1
  /\ Cardinality(ctxOpen) <= 2

\* the Calendar Service answers every request, with a result or an error:
\* fetch settles, and the browser runs the continuation of a settled await
AnswerBackend ==
  \E k \in 1..MaxCalls + 1 :
    \E outcome \in Answers("schedule", Args) \cup ScheduleOutcomes
                      \cup FreeBusyOutcomes :
      BackendReturn(k, outcome)

\* for progress all that matters of a call is whether it waits for the
\* Calendar Service: one call that does and one that does not, per tool
LiveCalls ==
  {c \in ToolCalls :
     c.args \in {Complete(EmailPlain),
                 [Complete(EmailPlain) EXCEPT !.attendeeEmail = NoEmail],
                 [Args EXCEPT !.timeMin = "T09", !.timeMax = "T10"]}}

LiveNext == StartClick(1) \/ Events \/ UiMode(1) \/ Tools(LiveCalls, MaxCalls)

LiveSpec == Init /\ [][LiveNext]_vars /\ WF_vars(AnswerBackend)

Arrived(id) ==
  \E j \in HandlerIds : \E n \in CallIdx(j) : Call(j, n).id = id

\* C2: every function call that arrives is eventually answered with a
\* sendToolResponse, provided every Calendar Service request returns or
\* throws.
C2_EventuallyAnswered ==
  \A id \in 1..MaxCalls : Arrived(id) ~> (ResponsesTo(id) # {})

\* the second call of a message was answered after both calls waited for the
\* Calendar Service, the first of them in vain
C2_Witness ==
  \E j \in HandlerIds :
    /\ Len(handlers[j].calls) = 2
    /\ \E k1, k2 \in 1..Len(requests) :
         /\ requests[k1].call = Call(j, 1).id
         /\ Threw(k1)
         /\ requests[k2].call = Call(j, 2).id
         /\ requests[k2].outcome # Pending
    /\ ResponsesTo(Call(j, 2).id) # {}

(***************************************************************************)
(* The Calendar Service: POST /api/calendar/schedule of the two servers in *)
(* src/server/src/index.ts, the first with scheduleMeeting of calendar.ts. *)
(***************************************************************************)
ServerBuilds == {"legacy", "session"}

\* the window a body asks for, and the bodies the model posts
Window(body) == body.startIso
Afternoon == [Complete(EmailPlain) EXCEPT !.startIso = "T14", !.endIso = "T15"]
Bodies ==
  {Complete(EmailPlain), Afternoon,
   [Complete(EmailPlain) EXCEPT !.title = Absent],
   [Complete(EmailPlain) EXCEPT !.title = "S"],
   [Complete(EmailPlain) EXCEPT !.attendeeEmail = NoEmail]}
Windows == {Window(b) : b \in Bodies}

Task(body, pc, result) ==
  [body |-> body, pc |-> pc, fb |-> "unasked", attempt |-> 0,
   result |-> result]

\* for (let attempt = 0; attempt < 10; attempt++) of scheduleMeeting
MaxAttempts == 10

\* the ?session= values a request comes with: 0 is none; an id the server
\* has not issued is an unknown one
MaxSessions == 2
Callers == 0..MaxSessions

\* loadToken of googleAuth.ts: the environment's token, else the token file
loadToken == envToken \/ token

\* getSession: a session that was created and is neither deleted nor expired
getSession(sid) == sid \in 1..Len(sessions) /\ sessions[sid] = "live"

\* "Determine Auth Client" of the routes of index.ts
isConnected(sid) == IF sid # 0 THEN getSession(sid) ELSE token

\* the route handler up to its first await or to its response
postSchedule(body, sid) ==
  /\ Len(tasks) < MaxRequests
  /\ tasks' = Append(tasks,
       IF server = "legacy"
       THEN IF ~scheduleSchema(body) THEN Task(body, "done", Http(FALSE, AnsZodError))
            ELSE IF ~loadToken THEN Task(body, "done", Http(FALSE, AnsNoToken))
            ELSE Task(body, "freebusy", Pending)
       ELSE IF pickMissingScheduleFields(body) # <<>>
            THEN Task(body, "done", Http(FALSE, AnsBadRequest))
            ELSE IF ~isConnected(sid)
            THEN Task(body, "done", Http(FALSE, AnsUnauthorized))
            ELSE Task(body, "insert", Pending))
  /\ UNCHANGED <<voiceVars, appVars, chatVars, server, token, booked,
                 inserted, authVars>>

\* scheduleMeeting after cal.freebusy.query answered: a busy window ends the
\* request with a conflict, a free one goes on to events.insert
freeBusyQuery(t) ==
  /\ t \in 1..Len(tasks)
  /\ tasks[t].pc = "freebusy"
  /\ tasks' = IF Window(tasks[t].body) \in booked
              THEN [tasks EXCEPT ![t].fb = "busy", ![t].pc = "done",
                                 ![t].result = Http(TRUE, AnsConflict)]
              ELSE [tasks EXCEPT ![t].fb = "free", ![t].pc = "insert"]
  /\ UNCHANGED <<voiceVars, appVars, chatVars, server, token, booked,
                 inserted, authVars>>

\* calendar.events.insert answered: Google has created the event. The
\* session server answers ok. scheduleMeeting of the first server answers ok
\* when the event came with a Meet link, and otherwise sleeps and polls
\* events.get for the link.
eventsInsert(t, link) ==
  /\ t \in 1..Len(tasks)
  /\ tasks[t].pc = "insert"
  /\ inserted' = Append(inserted,
                   [task |-> t, window |-> Window(tasks[t].body),
                    fb |-> tasks[t].fb,
                    busy |-> Window(tasks[t].body) \in booked])
  /\ booked' = booked \cup {Window(tasks[t].body)}
  /\ tasks' = IF server = "legacy" /\ ~link
              THEN [tasks EXCEPT ![t].pc = "sleep"]
              ELSE [tasks EXCEPT ![t].pc = "done",
                                 ![t].result = Http(TRUE, AnsOk)]
  /\ UNCHANGED <<voiceVars, appVars, chatVars, server, token, authVars>>

\* await sleep(800) is over: events.get is called
sleepOver(t) ==
  /\ t \in 1..Len(tasks)
  /\ tasks[t].pc = "sleep"
  /\ tasks' = [tasks EXCEPT ![t].pc = "get"]
  /\ UNCHANGED <<voiceVars, appVars, chatVars, server, token, booked,
                 inserted, authVars>>

\* events.get answered, with the Meet link or without it: the loop ends at
\* the link and after its last attempt, and the request is answered ok
eventsGet(t, link) ==
  /\ t \in 1..Len(tasks)
  /\ tasks[t].pc = "get"
  /\ tasks' = IF link \/ tasks[t].attempt + 1 >= MaxAttempts
              THEN [tasks EXCEPT ![t].pc = "done",
                                 ![t].result = Http(TRUE, AnsOk)]
              ELSE [tasks EXCEPT ![t].pc = "sleep", ![t].attempt = @ + 1]
  /\ UNCHANGED <<voiceVars, appVars, chatVars, server, token, booked,
                 inserted, authVars>>

\* a Google API call fails: the route's catch clause answers with the error
googleError(t) ==
  /\ t \in 1..Len(tasks)
  /\ tasks[t].pc \in {"freebusy", "insert", "get"}
  /\ tasks' = [tasks EXCEPT ![t].pc = "done",
                            ![t].result = Http(FALSE, AnsGoogleError(server))]
  /\ UNCHANGED <<voiceVars, appVars, chatVars, server, token, booked,
                 inserted, authVars>>

\* somebody else puts an event on the organizer's calendar
externalBooking(w) ==
  /\ w \notin booked
  /\ booked' = booked \cup {w}
  /\ UNCHANGED <<voiceVars, appVars, chatVars, server, token, tasks,
                 inserted, authVars>>

\* GET /api/auth/callback stores the organizer's credentials; index.ts also
\* creates a session, under an id of its own
authCallback ==
  /\ server = "session" => Len(sessions) < MaxSessions
  /\ token' = TRUE
  /\ sessions' = IF server = "session" THEN Append(sessions, "live") ELSE sessions
  /\ loggedOut' = FALSE
  /\ UNCHANGED <<voiceVars, appVars, chatVars, server, booked, tasks,
                 inserted, envToken, reply, queries>>

\* deleteSession
deleteSession(ss, sid) ==
  IF sid \in 1..Len(ss) THEN [ss EXCEPT ![sid] = "deleted"] ELSE ss

\* POST /api/auth/logout: clearToken of googleAuth.ts removes the token file;
\* index.ts deletes the session the request names, if it names one, revokes
\* the credentials of oauth2Client and removes the token file
authLogout(sid) ==
  /\ token' = FALSE
  /\ sessions' = IF server = "session" /\ sid # 0
                 THEN deleteSession(sessions, sid) ELSE sessions
  /\ loggedOut' = TRUE
  /\ UNCHANGED <<voiceVars, appVars, chatVars, server, booked, tasks,
                 inserted, envToken, reply, queries>>

\* a session is past its expiresAt: getSession finds it no more
sessionExpires(sid) ==
  /\ getSession(sid)
  /\ sessions' = [sessions EXCEPT ![sid] = "expired"]
  /\ UNCHANGED <<voiceVars, appVars, chatVars, server, token, booked, tasks,
                 inserted, envToken, loggedOut, reply, queries>>

\* GET /api/auth/status
getAuthStatus(sid) ==
  /\ reply' = [op |-> "status", session |-> sid,
               connected |-> IF server = "legacy" THEN loadToken
                             ELSE isConnected(sid)]
  /\ UNCHANGED <<voiceVars, appVars, chatVars, server, token, booked, tasks,
                 inserted, envToken, sessions, loggedOut, queries>>

\* the server's specifications leave the client as mounted
ServerInit ==
  /\ ClientInit /\ build = "part_004" /\ apiKey
  /\ ChatInit /\ AppInit
  /\ \E b \in ServerBuilds : ServerBoot(b)

ServerNext ==
  \/ \E body \in Bodies : postSchedule(body, 0)
  \/ \E t \in 1..MaxRequests + 1 : freeBusyQuery(t)
  \/ \E t \in 1..MaxRequests + 1 : \E link \in BOOLEAN : eventsInsert(t, link)
  \/ \E t \in 1..MaxRequests + 1 : sleepOver(t)
  \/ \E t \in 1..MaxRequests + 1 : \E link \in BOOLEAN : eventsGet(t, link)
  \/ \E t \in 1..MaxRequests + 1 : googleError(t)
  \/ \E w \in Windows : externalBooking(w)
  \/ authCallback
  \/ authLogout(0)

ServerSpec == ServerInit /\ [][ServerNext]_vars

\* C8 (as claimed): the Calendar Service inserts an event only after its
\* free/busy query for the window came back empty, and a request whose query
\* came back busy ends as a conflict without an insertion.
C8_InsertOnlyAfterFreeClaim ==
  /\ \A e \in 1..Len(inserted) : inserted[e].fb = "free"
  /\ \A t \in 1..Len(tasks) :
       tasks[t].fb = "busy" =>
         /\ tasks[t].result = Http(TRUE, AnsConflict)
         /\ \A e \in 1..Len(inserted) : inserted[e].task # t

(***************************************************************************)
(* Teardown.                                                               *)
(***************************************************************************)
\* nothing the sessions acquired is still held: no live microphone track, no
\* open AudioContext, no connection being opened or open, and the handles
\* are cleared
AllReleased ==
  /\ micLive = {}
  /\ ctxOpen = {}
  /\ audioContextRef = 0 /\ outputAudioContextRef = 0
  /\ \A i \in 1..Len(transport) : transport[i] \notin {"connecting", "open"}
  /\ sessionRef = 0

\* C11 (as claimed): a step in which stopSession runs to its end (where it
\* calls onRefresh) leaves every microphone track stopped, both audio
\* contexts closed with their handles cleared, and the Transport Session
\* closed with its handle cleared.
C11_TeardownReleasesClaim ==
  [][teardowns' > teardowns => AllReleased']_vars

\* C12: teardown is idempotent.  In every reachable state a second
\* stopSession right after a first changes nothing but the count of runs, and
\* over every sequence of starts, stops, errors and close events (the close
\* event that follows session.close() runs stopSession again in
\* VoiceAssistant.tsx) no track, processor, audio context or session has
\* stop/disconnect/close called on it twice.
C12_TeardownIdempotent ==
  /\ doubled = {}
  /\ LET once == stopSession(Cur)
         twice == stopSession(once)
     IN [twice EXCEPT !.teardowns = once.teardowns] = once

\* stopSession ran again after a teardown that closed a session and its
\* audio contexts
C12_Witness ==
  /\ teardowns >= 2
  /\ \E i \in 1..Len(starts) :
       {<<"session", i>>, <<"context", InCtx(i)>>, <<"context", OutCtx(i)>>}
         \subseteq released

(***************************************************************************)
(* Tool results that come back after the session was stopped.              *)
(***************************************************************************)
HandlerOf(hs, id) ==
  CHOOSE j \in 1..Len(hs) : \E n \in 1..Len(hs[j].calls) : hs[j].calls[n].id = id

\* the responses a step issues
NewResponses == (Len(toolResponses) + 1)..Len(toolResponses')

\* C13: stopSession neither waits for nor touches the handlers that await
\* the Calendar Service; when such a request completes once the connection
\* is no longer open, the handler calls sendToolResponse on its own (closed)
\* session, where nothing is sent, shows no error, changes nothing of the
\* controller, and goes on with the rest of its calls.
C13_LateResultDropped ==
  [][/\ teardowns' > teardowns =>
          /\ UNCHANGED toolVars
          /\ \A k \in 1..Len(requests) : requests[k].outcome = Pending =>
               handlers'[HandlerOf(handlers, requests[k].call)].state = "awaiting"
     /\ \A r \in NewResponses :
          /\ toolResponses'[r].session =
               handlers'[HandlerOf(handlers', toolResponses'[r].id)].session
          /\ transport[toolResponses'[r].session] # "open" =>
               /\ ~toolResponses'[r].delivered
               /\ UNCHANGED lifeVars
               /\ handlers'[HandlerOf(handlers', toolResponses'[r].id)].state
                    \in {"awaiting", "done"}]_vars

\* the session was stopped while a request was pending, and the response
\* issued when the request completed was not sent
C13_Witness ==
  /\ teardowns >= 1
  /\ \E k \in 1..Len(requests) :
       /\ requests[k].outcome # Pending
       /\ ResponsesTo(requests[k].call) # {}
       /\ \A r \in ResponsesTo(requests[k].call) : ~toolResponses[r].delivered

(***************************************************************************)
(* Audio output scheduling.                                                *)
(***************************************************************************)
Max(a, b) == IF a >= b THEN a ELSE b
End(k) == sources[k].at + sources[k].duration

\* C14: every chunk is started at max(cursor, now) and leaves the cursor at
\* that start plus its duration; the cursor never decreases; a chunk that
\* arrives while now <= cursor starts exactly where the chunk before it ends
\* (so three such chunks start at cursor, cursor+d1, cursor+d1+d2).
C14_CursorScheduling ==
  /\ [][/\ nextStartTimeRef' >= nextStartTimeRef
        /\ Len(sources') > Len(sources) =>
             /\ Len(sources') = Len(sources) + 1
             /\ sources'[Len(sources')].at = Max(nextStartTimeRef, currentTime)
             /\ nextStartTimeRef' =
                  sources'[Len(sources')].at + sources'[Len(sources')].duration]_vars
  /\ [](\A k \in 1..Len(sources) - 1 :
          sources[k + 1].now <= End(k) => sources[k + 1].at = End(k))

\* three chunks arrived while the clock was not past the cursor and were
\* started back to back after a first one that was raised to the clock
C14_Witness ==
  /\ Len(sources) = 3
  /\ sources[1].at = sources[1].now /\ sources[1].now > 0
  /\ sources[2].at = End(1)
  /\ sources[3].at = End(2)
  /\ sources[1].duration # sources[2].duration
  /\ nextStartTimeRef = End(3)

RestartNext == StartAfterStop \/ Events \/ Audio

RestartSpec == Init /\ [][RestartNext]_vars

\* source k is the first chunk of its session
First(k) == \A m \in 1..k - 1 : sources[m].session # sources[k].session

\* C15 (as claimed): in every session, also one started after an earlier
\* session was stopped, the first chunk is started at the output context's
\* current time.
C15_CursorStartsAtNowClaim ==
  \A k \in 1..Len(sources) : First(k) => sources[k].at = sources[k].now

VisionEnd(k) == vision.sources[k].at + vision.sources[k].duration

\* C16 (as claimed): in the live-vision handler the chunks are started in
\* the order they arrived, one message is handled to its end before the next
\* is taken up, and every chunk is started at or after the end of the chunk
\* before it and not before the audio clock at the moment of source.start.
C16_ArrivalOrderNoOverlapClaim ==
  /\ Len(vision.decoding) <= 1
  /\ \A k \in 1..Len(vision.sources) :
       /\ vision.sources[k].seq = k
       /\ vision.sources[k].clocked => vision.sources[k].at >= vision.sources[k].now
       /\ k > 1 => vision.sources[k].at >= VisionEnd(k - 1)

\* C17 (as claimed): a step in which stopSession runs stops every source
\* that was scheduled and has not played to its end, and leaves no tracked
\* source behind; a chunk is scheduled only on a connection that is open
\* and was not stopped.
C17_SourcesStoppedClaim ==
  [][/\ teardowns' > teardowns =>
          /\ \A k \in 1..Len(sources) :
               sources[k].state = "scheduled" => sources'[k].state = "stopped"
          /\ sourcesRef' = {}
     /\ Len(sources') > Len(sources) =>
          /\ transport[sources'[Len(sources')].session] = "open"
          /\ <<"session", sources'[Len(sources')].session>> \notin released]_vars

(***************************************************************************)
(* Audio input.                                                            *)
(***************************************************************************)
SentWindows == {realtimeInput[n].window : n \in 1..Len(realtimeInput)}
Waiting == {pendingInput[n] : n \in 1..Len(pendingInput)}

\* C18 (as claimed): the windows of a session reach its sendRealtimeInput in capture
\* order and none twice; a window captured while the
\* connection is open is handed over in the same step, and one captured
\* while the connection was being opened waits and is handed over when the
\* promise resolves: no such window is let go.
C18_WindowsInOrderClaim ==
  /\ \A n, m \in 1..Len(realtimeInput) :
       n < m /\ realtimeInput[n].session = realtimeInput[m].session =>
         realtimeInput[n].window < realtimeInput[m].window
  /\ \A n \in 1..Len(realtimeInput) :
       realtimeInput[n].session = captured[realtimeInput[n].window].session
  /\ \A w \in 1..Len(captured) :
       /\ captured[w].transport = "open" => w \in SentWindows
       /\ captured[w].transport = "connecting" =>
            /\ w \in SentWindows \cup Waiting
            /\ starts[captured[w].session].pc = "done" => w \in SentWindows

(***************************************************************************)
(* Permission denied at start.                                             *)
(***************************************************************************)
PermissionNext == StartClick(MaxStarts) \/ Events \/ Overlap \/ VisionStart(MaxStarts)

PermissionSpec == Init /\ [][PermissionNext]_vars

\* C19 (as claimed): the step in which getUserMedia is turned down sets an
\* error message, and when the start function has returned the controller
\* is not active, no connection was requested for this start, and no audio
\* context, media stream or processor of this start is left allocated; in
\* the voice assistant and in the live vision alike.
C19_DeniedFailsFastClaim ==
  [][/\ \A i \in 1..Len(starts) : MicDenied(i) =>
          /\ errorMessage' # Null
          /\ ~isActive'
          /\ transport'[i] = "none"
          /\ audioContextRef' = 0 /\ outputAudioContextRef' = 0
          /\ ctxOpen' \cap {InCtx(i), OutCtx(i)} = {}
          /\ i \notin micLive' /\ streamRef' = 0 /\ processorRef' = 0
     /\ \A i \in VisionRuns : mediaDenied(i) =>
          /\ vision'.error # ""
          /\ ~vision'.isLive
          /\ vision'.runs[i].transport = "none"
          /\ vision'.ctxOpen \cap {InCtx(i), OutCtx(i)} = {}
          /\ i \notin vision'.tracksLive]_vars

(***************************************************************************)
(* E-mail normalization.                                                   *)
(***************************************************************************)
\* C20 (as claimed): normalizeEmail turns every spoken form
\* "local at domain dot tld" (any case, extra blanks, punctuation at the
\* ends) into local@domain.tld, which isValidEmail accepts, and what it
\* makes of "not an email" is not accepted.
C20_SpokenFormClaim ==
  cleanedEmail # NotCalled =>
    /\ \A p \in SpokenParts :
         attendeeEmail = Spoken(p) =>
           cleanedEmail = Address(p) /\ isValidEmail(cleanedEmail)
    /\ attendeeEmail = EmailBad => ~isValidEmail(cleanedEmail)

(***************************************************************************)
(* Real-mode scheduling.                                                   *)
(***************************************************************************)
\* schedule_meeting calls with complete arguments, the address written,
\* spoken or no address at all
RealCalls == {[name |-> "schedule_meeting", args |-> Complete(e)] : e \in Emails}

RealNext == StartClick(1) \/ Events \/ UiMode(1) \/ Tools(RealCalls, MaxCalls)

RealSpec == Init /\ [][RealNext]_vars

\* the loop has come to call n of handler j
Reached(j, n) == n <= handlers[j].next

\* C21 (as claimed): in real mode, with the organizer's calendar connected,
\* a schedule_meeting call with complete arguments and an attendee e-mail
\* that is valid once normalized makes exactly one schedule request to the
\* Calendar Service, whose payload is the arguments with the e-mail
\* normalized and nothing else changed.
C21_OneScheduleRequestClaim ==
  \A j \in HandlerIds : \A n \in CallIdx(j) :
    (/\ RealSchedule(j, n)
     /\ handlers[j].env.organizerConnected
     /\ pickMissingScheduleFields(Call(j, n).args) = <<>>
     /\ isValidEmail(normalizeEmail(Call(j, n).args.attendeeEmail))
     /\ Reached(j, n)) =>
      /\ Cardinality(RequestsFor(Call(j, n).id)) = 1
      /\ \A k \in RequestsFor(Call(j, n).id) :
           /\ requests[k].op = "schedule"
           /\ requests[k].payload =
                [Call(j, n).args EXCEPT !.attendeeEmail =
                   normalizeEmail(Call(j, n).args.attendeeEmail)]

(***************************************************************************)
(* connectOrganizerCalendar.  part_004 opens the consent page in a new tab *)
(* and polls BackendCalendar.authStatus until it reports connected or the  *)
(* bound has passed; VoiceAssistant.tsx sends the page itself to the       *)
(* consent page.                                                           *)
(***************************************************************************)
PollMs == 1500
TimeoutMs == 60000

\* how late a timer fires, how long a status request takes (milliseconds)
MaxDelay == 700
Delays == {0, MaxDelay}

\* Date.now() - start stops mattering past the bound; the model's clock
\* stops one poll and one delay after it
ClockEnd == TimeoutMs + PollMs + MaxDelay
Advance(elapsed, ms) ==
  IF elapsed + ms > ClockEnd THEN ClockEnd ELSE elapsed + ms

\* what the fetch of /api/auth/url and of /api/auth/status can come to
AuthOutcomes ==
  {[kind |-> "http", ok |-> TRUE, connected |-> TRUE],
   [kind |-> "http", ok |-> TRUE, connected |-> FALSE],
   [kind |-> "http", ok |-> FALSE, connected |-> FALSE],
   [kind |-> "network_error", ok |-> FALSE, connected |-> FALSE]}

\* BackendCalendar.authUrl
authUrl(outcome) ==
  IF outcome.kind = "network_error" THEN Throw("Failed to fetch")
  ELSE IF ~outcome.ok THEN Throw("Backend unreachable")
  ELSE Return(Obj)

\* BackendCalendar.authStatus: s.connected of what it returns; a failed
\* request counts as not connected
authStatus(outcome) ==
  IF outcome.kind = "network_error" \/ ~outcome.ok THEN FALSE
  ELSE outcome.connected

\* a catch clause that leaves the button disabled
connectCatchKeepsConnecting(st, message) ==
  [st EXCEPT !.errorMessage = IF message # "" THEN message ELSE "Auth failed"]

\* catch (e) { setIsConnecting(false); setErrorMessage(e?.message || ...) }
connectCatch(st, message) ==
  [st EXCEPT !.isConnecting = FALSE,
             !.errorMessage = IF message # "" THEN message ELSE "Auth failed"]

\* while (Date.now() - start < 60000)
withinBound(elapsed) == elapsed < TimeoutMs

ConnectCommit(st, pc, elapsed) ==
  /\ Commit([Cur EXCEPT !.errorMessage = st.errorMessage])
  /\ isConnecting' = st.isConnecting
  /\ connecting' = [pc |-> pc, elapsed |-> elapsed]
  /\ UNCHANGED <<build, apiKey, mode, authPending, signingOut, starts, toolVars, srvVars, chatVars,
                 vision, attendeeEmail, cleanedEmail>>

ConnectState == [isConnecting |-> isConnecting, errorMessage |-> errorMessage]

\* click on "Connect Google", which is shown in real mode while the
\* organizer is not connected and is disabled while isConnecting
connectOrganizerCalendar ==
  /\ mode = "real" /\ ~organizerConnected
  /\ ~isConnecting
  /\ ConnectCommit([isConnecting |-> TRUE, errorMessage |-> Null], "authUrl", 0)
  /\ UNCHANGED organizerConnected

\* await BackendCalendar.authUrl() returns or throws. With the url part_004
\* opens a tab and takes start = Date.now(); VoiceAssistant.tsx assigns
\* window.location.href, and the page is left with isConnecting still true
authUrlReturns(outcome) ==
  /\ connecting.pc = "authUrl"
  /\ IF authUrl(outcome).threw
     THEN ConnectCommit(connectCatch(ConnectState, authUrl(outcome).message),
                        "failed", 0)
     ELSE ConnectCommit(ConnectState,
                        IF build = "part_004" THEN "sleep" ELSE "left", 0)
  /\ UNCHANGED organizerConnected

\* await new Promise((r) => setTimeout(r, 1500)) is over
timerFires(late) ==
  /\ connecting.pc = "sleep"
  /\ ConnectCommit(ConnectState, "authStatus",
                   Advance(connecting.elapsed, PollMs + late))
  /\ UNCHANGED organizerConnected

\* await BackendCalendar.authStatus() returns, after `took` milliseconds
authStatusReturns(outcome, took) ==
  /\ connecting.pc = "authStatus"
  /\ LET elapsed == Advance(connecting.elapsed, took)
     IN IF authStatus(outcome)
        THEN /\ organizerConnected' = TRUE
             /\ ConnectCommit([ConnectState EXCEPT !.isConnecting = FALSE],
                              "connected", elapsed)
        ELSE /\ UNCHANGED organizerConnected
             /\ IF withinBound(elapsed)
                THEN ConnectCommit(ConnectState, "sleep", elapsed)
                ELSE ConnectCommit(
                       connectCatch(ConnectState,
                                    "Timeout waiting for Google Login."),
                       "timeout", elapsed)

\* the steps the scheduler owes a running call
ConnectStep ==
  \/ \E outcome \in AuthOutcomes : authUrlReturns(outcome)
  \/ \E late \in Delays : timerFires(late)
  \/ \E outcome \in AuthOutcomes : \E took \in Delays :
       authStatusReturns(outcome, took)

\* the page that was left for the consent page takes no more clicks and no
\* more answers
ConnectNext ==
  \/ connectOrganizerCalendar
  \/ ConnectStep
  \/ connecting.pc # "left" /\ UiMode(1)

ConnectSpec == Init /\ [][ConnectNext]_vars /\ WF_vars(ConnectStep)

ConnectExits == {"connected", "timeout", "failed"}

\* C22: a connectOrganizerCalendar call comes to an end.  In part_004, whose
\* call polls, it ends connected, with organizerConnected set, at the first
\* status poll that reports connected; else with the timeout error once 60
\* seconds have passed; else because authUrl failed; and at every such end
\* isConnecting is false.  Only VoiceAssistant.tsx, which does not poll,
\* ends by leaving the page.
C22_ConnectTerminates ==
  /\ [](connecting.pc \in ConnectExits => ~isConnecting)
  /\ [](connecting.pc = "timeout" =>
          /\ errorMessage = "Timeout waiting for Google Login."
          /\ connecting.elapsed >= TimeoutMs)
  /\ [][\A outcome \in AuthOutcomes : \A took \in Delays :
          (authStatusReturns(outcome, took) /\ authStatus(outcome)) =>
            connecting'.pc = "connected" /\ organizerConnected']_vars
  /\ [][connecting'.pc = "connected" /\ connecting.pc # "connected" =>
          organizerConnected']_vars
  /\ [](connecting.pc = "left" => build = "VoiceAssistant")
  /\ (connecting.pc = "authUrl") ~>
       (connecting.pc \in ConnectExits \cup {"left"})

\* the call ended by timeout after polls that never reported connected
C22_Witness ==
  /\ connecting.pc = "timeout"
  /\ ~isConnecting
  /\ ~organizerConnected

(***************************************************************************)
(* Sign-in state of the Calendar Service: OAuth callback, logout, status.  *)
(***************************************************************************)
AuthNext ==
  \/ authCallback
  \/ \E sid \in Callers : authLogout(sid)
  \/ \E sid \in Callers : sessionExpires(sid)
  \/ \E sid \in Callers : getAuthStatus(sid)
  \/ \E sid \in Callers : postSchedule(Complete(EmailPlain), sid)

AuthSpec == ServerInit /\ [][AuthNext]_vars

\* the schedule request the server took last was turned down
Refused == tasks[Len(tasks)].pc = "done" /\ ~tasks[Len(tasks)].result.ok

\* C23 (as claimed): once a logout has been answered, and until the next
\* OAuth callback, every status request, with any session id or none, is
\* answered connected=false, and every schedule request is refused.
C23_LogoutClearsClaim ==
  [][\A sid \in Callers :
       /\ (loggedOut /\ getAuthStatus(sid)) => ~reply'.connected
       /\ (loggedOut /\ postSchedule(Complete(EmailPlain), sid)) => Refused']_vars

(***************************************************************************)
(* Several function calls in one message.                                  *)
(***************************************************************************)
\* what call n of handler j comes to on its own: the result the dispatcher
\* works out from the call and its closure, or from the answer to the call's
\* own request
OwnResult(j, n) ==
  LET step == handlers[j].steps[n]
  IN IF step.kind = "respond" THEN step.response
     ELSE LET k == CHOOSE k \in RequestsFor(Call(j, n).id) : TRUE
          IN settle(step.op, requests[k].outcome).response

IsError(r) == r.error # Absent \/ r.ok = False

\* C24: the calls of one message are resolved one by one, each with its own
\* result: the handler never dies, every call it is through with has got its
\* own result as its one response, and an error result or an exception for
\* one call does not keep the loop from going on to the calls after it.
C24_CallsIndependent ==
  \A j \in HandlerIds :
    /\ handlers[j].state # "crashed"
    /\ handlers[j].state = "done" => handlers[j].next = Len(handlers[j].calls) + 1
    /\ \A n \in CallIdx(j) :
         Settled(j, n) =>
           /\ Cardinality(ResponsesTo(Call(j, n).id)) = 1
           /\ ResultOf(Call(j, n).id) = OwnResult(j, n)

\* the first call of a message ended in an exception of the Calendar Service
\* and was answered with the error; the second call of the message was sent
\* to the Calendar Service after that and answered with its success
C24_Witness ==
  \E j \in HandlerIds :
    /\ handlers[j].state = "done"
    /\ Len(handlers[j].calls) = 2
    /\ \E k1, k2 \in 1..Len(requests) :
         /\ k1 < k2
         /\ requests[k1].call = Call(j, 1).id
         /\ Threw(k1)
         /\ requests[k2].call = Call(j, 2).id
         /\ requests[k2].outcome = Http(TRUE, AnsOk)
    /\ IsError(ResultOf(Call(j, 1).id))
    /\ ResultOf(Call(j, 2).id) = AnsOk

(***************************************************************************)
(* The follow-up request of the chat.                                      *)
(***************************************************************************)
ChatRequestsFor(id) == {k \in 1..Len(chatRequests) : chatRequests[k].call = id}

\* what call n of the reply comes to: "Unknown tool" for a name that is not
\* declared, else what BackendCalendar returned, or the message it threw
ChatResult(n) ==
  LET call == chat.calls[n]
  IN IF call.name \notin {"list_events", "create_event"}
     THEN [Obj EXCEPT !.error = "Unknown tool"]
     ELSE LET k == CHOOSE k \in ChatRequestsFor(call.id) : TRUE
              out == chatRequests[k].outcome
          IN IF call.name = "list_events" THEN listEvents(out).value
             ELSE IF schedule(out).threw
             THEN [Obj EXCEPT !.error = schedule(out).message]
             ELSE schedule(out).value

\* C25: the follow-up request of a chat turn holds one functionResponse per
\* function call of the reply, in call order, each with its call's name and
\* id and with the call's result; it is sent only when every call has been
\* resolved, and while calls are being resolved no follow-up holds a
\* response to any of them.
C25_FollowUpComplete ==
  /\ chat.pc = "followUp" =>
       LET f == followUps[Len(followUps)]
       IN /\ Len(f) = Len(chat.calls)
          /\ \A n \in 1..Len(chat.calls) :
               /\ f[n].name = chat.calls[n].name
               /\ f[n].id = chat.calls[n].id
               /\ chat.calls[n].name \in {"list_events", "create_event"} =>
                    /\ Cardinality(ChatRequestsFor(chat.calls[n].id)) = 1
                    /\ \A k \in ChatRequestsFor(chat.calls[n].id) :
                         chatRequests[k].outcome # Pending
               /\ f[n].response = [result |-> ChatResult(n)]
  /\ chat.pc = "tools" =>
       \A m \in 1..Len(followUps) : \A x \in 1..Len(followUps[m]) :
         \A n \in 1..Len(chat.calls) : followUps[m][x].id # chat.calls[n].id

\* a follow-up went out for a reply of two calls: a create_event on which the
\* Calendar Service threw, and a tool that is not declared
C25_Witness ==
  /\ chat.pc = "followUp"
  /\ Len(chat.calls) = 2
  /\ chat.calls[1].name = "create_event"
  /\ chat.calls[2].name = "delete_event"
  /\ followUps[Len(followUps)][1].response.result =
       [Obj EXCEPT !.error = "Failed to fetch"]
  /\ followUps[Len(followUps)][2].response.result =
       [Obj EXCEPT !.error = "Unknown tool"]

(***************************************************************************)
(* Stopping live vision.                                                   *)
(***************************************************************************)
\* nothing of the live-vision session is left that could send: its
\* connection is closed, the frame timer is cleared, the camera and
\* microphone tracks are stopped and the contexts are closed
VisionStopped ==
  /\ \A i \in VisionRuns : vision.runs[i].transport \notin {"connecting", "open"}
  /\ vision.intervals = {}
  /\ vision.tracksLive = {}
  /\ vision.ctxOpen = {}

\* C26 (as claimed): when stopLiveVision has run, from a click or from
\* onerror, before onopen or after it, the connection is closed, the frame
\* timer is cleared and the camera and microphone tracks are stopped, so
\* that no audio window and no video frame can be sent any more.
C26_VisionStopClaim ==
  [][((\E upload \in BOOLEAN : visionStopClick(upload, MaxTeardowns))
      \/ (\E i \in VisionRuns : visionError(i))) => VisionStopped']_vars

(***************************************************************************)
(* The mode of a session.                                                  *)
(***************************************************************************)
\* C27 (as claimed): while a session's connection is being opened or is
\* open, the mode selected in the UI is the mode the session's dispatcher
\* holds, and whenever the dispatcher sends a request to the Calendar
\* Service the selected mode is 'real'.
C27_ModeFixedClaim ==
  /\ [](\A i \in 1..Len(starts) :
          transport[i] \in {"connecting", "open"} => starts[i].mode = mode)
  /\ [][Len(requests') > Len(requests) => mode = "real"]_vars

(***************************************************************************)
(* Concurrent schedule requests.                                           *)
(***************************************************************************)
Booked(t) == tasks[t].pc = "done" /\ tasks[t].result = Http(TRUE, AnsOk)

\* C28 (as claimed): whatever the interleaving of the schedule requests, an
\* event is inserted only into a window that holds no event yet, and no two
\* requests for the same window are both answered ok:true.
C28_NoDoubleBookingClaim ==
  /\ \A e1, e2 \in 1..Len(inserted) :
       e1 < e2 => inserted[e1].window # inserted[e2].window
  /\ \A t1, t2 \in 1..Len(tasks) :
       (t1 # t2 /\ Booked(t1) /\ Booked(t2)) =>
         Window(tasks[t1].body) # Window(tasks[t2].body)

(***************************************************************************)
(* Free/busy requests to the Calendar Service.                             *)
(***************************************************************************)
FreeBusyError(sid) == [op |-> "freebusy", session |-> sid, kind |-> "error",
                       isFree |-> FALSE, busy |-> {}]
FreeBusyAnswer(sid, isFree, busy) ==
  [op |-> "freebusy", session |-> sid, kind |-> "answer",
   isFree |-> isFree, busy |-> busy]

\* the busy list Google answers for window w
busySegments(w) == IF w \in booked THEN {w} ELSE {}

\* the free/busy route for window w, from a caller with session sid, up to
\* its await of calendar.freebusy.query: freeBusyQuery of calendar.ts behind
\* POST /api/calendar/freebusy, where calendarApi throws without a token, and
\* GET /api/calendar/freebusy of the session server, which answers a caller
\* that is not connected at once
getFreeBusy(sid, w) ==
  /\ Len(queries) < MaxRequests
  /\ IF server = "legacy" /\ ~loadToken
     THEN reply' = FreeBusyError(sid) /\ UNCHANGED queries
     ELSE IF server = "session" /\ ~isConnected(sid)
     THEN reply' = FreeBusyAnswer(sid, FALSE, {}) /\ UNCHANGED queries
     ELSE /\ queries' = Append(queries, [session |-> sid, window |-> w,
                                         pc |-> "query"])
          /\ UNCHANGED reply
  /\ UNCHANGED <<voiceVars, appVars, chatVars, server, token, booked, tasks,
                 inserted, envToken, sessions, loggedOut>>

\* calendar.freebusy.query answers request q: the route answers with
\* Google's busy list and isFree: busy.length === 0
queryAnswered(q) ==
  /\ q \in 1..Len(queries)
  /\ queries[q].pc = "query"
  /\ reply' = FreeBusyAnswer(queries[q].session,
                             busySegments(queries[q].window) = {},
                             busySegments(queries[q].window))
  /\ queries' = [queries EXCEPT ![q].pc = "done"]
  /\ UNCHANGED <<voiceVars, appVars, chatVars, server, token, booked, tasks,
                 inserted, envToken, sessions, loggedOut>>

\* calendar.freebusy.query of request q fails: the route answers with the
\* error
getFreeBusyFails(q) ==
  /\ q \in 1..Len(queries)
  /\ queries[q].pc = "query"
  /\ reply' = FreeBusyError(queries[q].session)
  /\ queries' = [queries EXCEPT ![q].pc = "done"]
  /\ UNCHANGED <<voiceVars, appVars, chatVars, server, token, booked, tasks,
                 inserted, envToken, sessions, loggedOut>>

FreeBusyNext ==
  \/ authCallback
  \/ \E sid \in Callers : authLogout(sid)
  \/ \E sid \in Callers : sessionExpires(sid)
  \/ \E w \in Windows : externalBooking(w)
  \/ \E sid \in Callers : \E w \in Windows : getFreeBusy(sid, w)
  \/ \E q \in 1..MaxRequests + 1 : queryAnswered(q)
  \/ \E q \in 1..MaxRequests + 1 : getFreeBusyFails(q)

FreeBusySpec == ServerInit /\ [][FreeBusyNext]_vars

\* C29 (as claimed): every free/busy answer of the server has isFree = true
\* exactly when its busy list is empty, the answer to a caller that is not
\* authenticated included.
C29_IsFreeIffNoBusyClaim ==
  (reply.op = "freebusy" /\ reply.kind = "answer") =>
    (reply.isFree <=> reply.busy = {})


\* a lower-case address of the shape local@domain.tld with no blank in it
WellFormed(s) ==
  /\ isValidEmail(s)
  /\ s = Lower(s)
  /\ \A n \in 1..Len(s) : ~IsSpace(s[n])

\* C30 (as claimed): normalizeEmail returns a well-formed lower-case address
\* as it got it, so that an address that passes isValidEmail before passes
\* it after.
C30_GoodAddressKeptClaim ==
  (cleanedEmail # NotCalled /\ WellFormed(attendeeEmail)) =>
    /\ cleanedEmail = attendeeEmail
    /\ isValidEmail(cleanedEmail)

=============================================================================
